---- MODULE Spec2Model ----
(***************************************************************************)
(* Model of streamlit_app.py (Japanese administrative-procedure           *)
(* dashboard): the normalization / aggregation / filtering layer, the data *)
(* load, the procedure detail view and the runs of main() in a session.    *)
(*                                                                         *)
(* Text is modelled as a sequence of characters.  An ASCII character is    *)
(* the one-character string itself; a non-ASCII character is written by    *)
(* its code point, "U+FF08" for the full-width left parenthesis.  Column   *)
(* names and field keys, which the code only compares for equality, are    *)
(* ASCII identifiers; the Japanese name is given in the comment.           *)
(***************************************************************************)
EXTENDS Integers, Sequences, FiniteSets, TLC

VARIABLES
    nl_key, nl_val, nl_out,                  \* _normalize_label: key, raw value, results of repeated application
    sv_val, sv_done, sv_out,                 \* split_multi_value: argument, whether called, result
    ag_df, ag_column, ag_key, ag_order,      \* normalized_counts / multi_value_counts: arguments,
    ag_fn, ag_done, ag_out,                  \*   function called, whether called, result
    fd_df, fd_src, fd_args, fd_out,          \* filter_dataframe: table passed, original table, arguments, results
    dt_df, dt_id, dt_fn, dt_session, dt_out, \* procedure detail: table, id looked up, function, session state, what was rendered
    ld_csv, ld_parquet, ld_out,              \* load_data: rows of the CSV file, the Parquet file, the table returned
    mn_disk, mn_session, mn_box, mn_filter,  \* main: table on disk, st.session_state, search box, filter widgets,
    mn_shown, mn_pending, mn_event,          \*   what the last run rendered, handler that asked for a rerun, last event,
    mn_loads, mn_origin,                     \*   calls of load_data so far, how the session began
    tn_series, tn_top, tn_out,               \* topn_with_other: series, top, result
    pg_df, pg_out,                           \* progress indicator: filtered table, value handed to st.progress
    in_r, in_out                             \* detail insight: record, maturity score and status style

vars == <<nl_key, nl_val, nl_out, sv_val, sv_done, sv_out,
          ag_df, ag_column, ag_key, ag_order, ag_fn, ag_done, ag_out,
          fd_df, fd_src, fd_args, fd_out,
          dt_df, dt_id, dt_fn, dt_session, dt_out,
          ld_csv, ld_parquet, ld_out,
          mn_disk, mn_session, mn_box, mn_filter, mn_shown, mn_pending, mn_event,
          mn_loads, mn_origin,
          tn_series, tn_top, tn_out, pg_df, pg_out, in_r, in_out>>

nl_vars == <<nl_key, nl_val, nl_out>>
sv_vars == <<sv_val, sv_done, sv_out>>
ag_vars == <<ag_df, ag_column, ag_key, ag_order, ag_fn, ag_done, ag_out>>
fd_vars == <<fd_df, fd_src, fd_args, fd_out>>
dt_vars == <<dt_df, dt_id, dt_fn, dt_session, dt_out>>
ld_vars == <<ld_csv, ld_parquet, ld_out>>
mn_vars == <<mn_disk, mn_session, mn_box, mn_filter, mn_shown, mn_pending, mn_event,
             mn_loads, mn_origin>>
tn_vars == <<tn_series, tn_top, tn_out>>
pg_vars == <<pg_df, pg_out>>
in_vars == <<in_r, in_out>>
core_vars == <<nl_vars, sv_vars, ag_vars, fd_vars, dt_vars, ld_vars>>
view_vars == <<mn_vars, tn_vars, pg_vars, in_vars>>

(***************************************************************************)
(* Bounds of the model.                                                    *)
(***************************************************************************)
MaxValLen == 4        \* longest raw value given to _normalize_label
MaxTextLen == 4       \* longest text given to split_multi_value
MaxCells == 3         \* most rows of a table that is aggregated
MaxRows == 2          \* most rows of a table that is filtered

\* The elements of a sequence.
Range(seq) == {seq[i] : i \in 1..Len(seq)}

\* All sequences over S of length 0..n.
RECURSIVE SeqsUpTo(_, _)
SeqsUpTo(S, n) ==
    IF n = 0 THEN {<<>>}
    ELSE LET shorter == SeqsUpTo(S, n - 1)
         IN  shorter \cup {Append(s, c) : s \in {t \in shorter : Len(t) = n - 1}, c \in S}

(***************************************************************************)
(* Characters.                                                             *)
(***************************************************************************)
FW_LPAREN == "U+FF08"     \* full-width (
FW_RPAREN == "U+FF09"     \* full-width )
FW_COMMA == "U+FF0C"      \* full-width ,
FW_SEMICOLON == "U+FF1B"  \* full-width ;
FW_SLASH == "U+FF0F"      \* full-width /
JP_COMMA == "U+3001"      \* ideographic comma
JP_MIDDOT == "U+30FB"     \* katakana middle dot
LF == "U+000A"            \* line feed
IDEO_SPACE == "U+3000"    \* ideographic space

\* str.isspace(), which str.strip() and the regex class \s both use.
IsSpace(c) == c \in {" ", LF, IDEO_SPACE}
\* The regex class \d.
IsDigit(c) == c \in {"0", "1", "2", "3", "4", "5", "6", "7", "8", "9"}

\* str.lower(), on the letters the model uses.
LowerChar(c) ==
    CASE c = "N" -> "n"
      [] c = "A" -> "a"
      [] c = "B" -> "b"
      [] OTHER -> c
Lower(s) == [i \in 1..Len(s) |-> LowerChar(s[i])]

\* First index >= i of s that holds no whitespace (Len(s)+1 when none).
RECURSIVE SkipSpaces(_, _)
SkipSpaces(s, i) ==
    IF i <= Len(s) /\ IsSpace(s[i]) THEN SkipSpaces(s, i + 1) ELSE i

\* First index >= i of s that holds no digit.
RECURSIVE SkipDigits(_, _)
SkipDigits(s, i) ==
    IF i <= Len(s) /\ IsDigit(s[i]) THEN SkipDigits(s, i + 1) ELSE i

\* Last index <= i of s that holds no whitespace (0 when none).
RECURSIVE SkipSpacesBack(_, _)
SkipSpacesBack(s, i) ==
    IF i >= 1 /\ IsSpace(s[i]) THEN SkipSpacesBack(s, i - 1) ELSE i

\* str.strip()
Strip(s) == SubSeq(s, SkipSpaces(s, 1), SkipSpacesBack(s, Len(s)))

\* str.replace(old, new) for a one-character old.
ReplaceChar(s, old, new) == [i \in 1..Len(s) |-> IF s[i] = old THEN new ELSE s[i]]

\* Whether pat occurs in s at index i.
MatchesAt(s, i, pat) ==
    /\ i + Len(pat) - 1 <= Len(s)
    /\ \A j \in 1..Len(pat) : s[i + j - 1] = pat[j]

\* str.replace(pat, rep) from index i on: leftmost non-overlapping occurrences.
RECURSIVE ReplaceFrom(_, _, _, _)
ReplaceFrom(s, i, pat, rep) ==
    IF i > Len(s) THEN <<>>
    ELSE IF MatchesAt(s, i, pat) THEN rep \o ReplaceFrom(s, i + Len(pat), pat, rep)
    ELSE <<s[i]>> \o ReplaceFrom(s, i + 1, pat, rep)
Replace(s, pat, rep) == ReplaceFrom(s, 1, pat, rep)

(***************************************************************************)
(* Field keys / column names.                                              *)
(***************************************************************************)
COL_MINISTRY == "shokan_fushocho"          \* 所管府省庁
COL_STATUS == "online_ka_no_jisshi_jokyo"  \* オンライン化の実施状況
COL_TYPE == "tetsuzuki_ruikei"             \* 手続類型
COL_ACTOR == "tetsuzuki_shutai"            \* 手続主体
COL_RECEIVER == "tetsuzuki_no_ukete"       \* 手続の受け手
COL_OFFICE == "jimu_kubun"                 \* 事務区分
COL_COMMON == "fusho_kyotsu_tetsuzuki"     \* 府省共通手続
COL_TOTAL == "so_tetsuzuki_kensu"          \* 総手続件数
COL_EVENT == "life_event_kojin"            \* a multi-value text column

SvIdle == sv_val = <<>> /\ sv_done = FALSE /\ sv_out = <<>>
AgIdle ==
    /\ ag_df = <<>> /\ ag_column = "" /\ ag_key = "" /\ ag_order = <<>>
    /\ ag_fn = "" /\ ag_done = FALSE /\ ag_out = <<>>
FdIdle == fd_df = <<>> /\ fd_src = <<>> /\ fd_args = <<>> /\ fd_out = <<>>
DtIdle == dt_df = <<>> /\ dt_id = <<>> /\ dt_fn = "" /\ dt_session = <<>> /\ dt_out = <<>>
LdIdle == ld_csv = <<>> /\ ld_parquet = <<>> /\ ld_out = <<>>
MnIdle ==
    /\ mn_disk = <<>> /\ mn_session = <<>> /\ mn_box = <<>> /\ mn_filter = <<>>
    /\ mn_shown = <<>> /\ mn_pending = "" /\ mn_event = "" /\ mn_loads = 0 /\ mn_origin = ""
TnIdle == tn_series = <<>> /\ tn_top = 0 /\ tn_out = <<>>
PgIdle == pg_df = <<>> /\ pg_out = <<>>
InIdle == in_r = <<>> /\ in_out = <<>>
ViewIdle == MnIdle /\ TnIdle /\ PgIdle /\ InIdle

(***************************************************************************)
(* _normalize_label                                                        *)
(***************************************************************************)
\* Mutant of StripLeadingCode: only the first run of digits is removed.
StripLeadingCode_DigitsOnly(s) ==
    LET i == SkipSpaces(s, 1)
        j == SkipDigits(s, i)
    IN  IF j = i THEN s ELSE SubSeq(s, j, Len(s))

\* re.sub(r"^\s*\d+(?:-\d+)?\s*", "", s)
StripLeadingCode(s) ==
    LET i == SkipSpaces(s, 1)
        j == SkipDigits(s, i)
        k == IF j + 1 <= Len(s) /\ s[j] = "-" /\ IsDigit(s[j + 1])
             THEN SkipDigits(s, j + 1) ELSE j
        l == SkipSpaces(s, k)
    IN  IF j = i THEN s ELSE SubSeq(s, l, Len(s))

\* "交付等(民間手続)" and "交付等（民間手続）"
KOFU_MINKAN_ASCII ==
    <<"U+4EA4", "U+4ED8", "U+7B49", "(", "U+6C11", "U+9593", "U+624B", "U+7D9A", ")">>
KOFU_MINKAN ==
    <<"U+4EA4", "U+4ED8", "U+7B49", FW_LPAREN, "U+6C11", "U+9593", "U+624B", "U+7D9A", FW_RPAREN>>

_normalize_label(key, val) ==
    LET s0 == Strip(val)
        s1 == ReplaceChar(ReplaceChar(s0, "(", FW_LPAREN), ")", FW_RPAREN)
        s2 == IF key \in {COL_STATUS, COL_TYPE} THEN StripLeadingCode(s1) ELSE s1
        s3 == IF key = COL_TYPE THEN Replace(s2, KOFU_MINKAN_ASCII, KOFU_MINKAN) ELSE s2
    IN  IF Lower(s0) = <<"n", "a", "n">> \/ s0 = <<>> THEN s0 ELSE s3

\* Inputs of the normalization runs.
NlAlphabet == {" ", "1", "-", "(", ")", "n", "a", "N"}
NlKeys == {COL_STATUS, COL_TYPE, COL_ACTOR}
NlExamples == {<<"1", "-", "1", " ", "a">>, <<"2", " ", "(", "a", ")">>}
NlValues == SeqsUpTo(NlAlphabet, MaxValLen) \cup NlExamples

NlIdle == nl_key = COL_ACTOR /\ nl_val = <<>> /\ nl_out = <<>>

NlInit ==
    /\ nl_key \in NlKeys
    /\ nl_val \in NlValues
    /\ nl_out = <<>>

\* One call: the first on the raw value, each later one on the previous result.
Normalize ==
    /\ Len(nl_out) < 2
    /\ nl_out' = Append(nl_out,
                        _normalize_label(nl_key, IF nl_out = <<>> THEN nl_val ELSE nl_out[Len(nl_out)]))
    /\ UNCHANGED <<nl_key, nl_val>>

NlNext == Normalize /\ UNCHANGED <<sv_vars, ag_vars, fd_vars, dt_vars, ld_vars, view_vars>>

NlSpecInit == NlInit /\ SvIdle /\ AgIdle /\ FdIdle /\ DtIdle /\ LdIdle /\ ViewIdle
NlSpec == NlSpecInit /\ [][NlNext]_vars

(***************************************************************************)
(* split_multi_value                                                       *)
(***************************************************************************)
PyNone == <<"<None>">>       \* the argument None
FloatNaN == <<"<float nan>">> \* the argument float('nan')

\* The character class of re.split(r"[、,;\n・／/]+", text).
Delimiters == {JP_COMMA, ",", ";", LF, JP_MIDDOT, FW_SLASH, "/"}
IsDelimiter(c) == c \in Delimiters

\* re.split on runs of delimiters: the segments between the runs, in order; a
\* run at the start or end of the text leaves an empty segment there.
RECURSIVE ReSplitFrom(_, _, _)
ReSplitFrom(text, i, cur) ==
    IF i > Len(text) THEN <<cur>>
    ELSE IF IsDelimiter(text[i])
         THEN IF i > 1 /\ IsDelimiter(text[i - 1])
              THEN ReSplitFrom(text, i + 1, cur)
              ELSE <<cur>> \o ReSplitFrom(text, i + 1, <<>>)
         ELSE ReSplitFrom(text, i + 1, Append(cur, text[i]))
ReSplit(text) == ReSplitFrom(text, 1, <<>>)

\* Mutant of StripParts: a segment of whitespace is kept as an empty token.
RECURSIVE StripParts_KeepsBlank(_)
StripParts_KeepsBlank(parts) ==
    IF parts = <<>> THEN <<>>
    ELSE LET p == Head(parts)
         IN  (IF p # <<>> THEN <<Strip(p)>> ELSE <<>>) \o StripParts_KeepsBlank(Tail(parts))

\* Mutant of StripParts: a token equal to the one kept before it is dropped.
RECURSIVE StripParts_Dedup(_)
StripParts_Dedup(parts) ==
    IF parts = <<>> THEN <<>>
    ELSE LET p == Head(parts)
             rest == StripParts_Dedup(Tail(parts))
         IN  IF p # <<>> /\ Strip(p) # <<>>
             THEN <<Strip(p)>> \o SelectSeq(rest, LAMBDA t : t # Strip(p))
             ELSE rest

\* [p.strip() for p in parts if p and p.strip()]
RECURSIVE StripParts(_)
StripParts(parts) ==
    IF parts = <<>> THEN <<>>
    ELSE LET p == Head(parts)
         IN  (IF p # <<>> /\ Strip(p) # <<>> THEN <<Strip(p)>> ELSE <<>>) \o StripParts(Tail(parts))

\* Mutant of split_multi_value: the text "nan" is matched case-sensitively.
split_multi_value_CaseSensitiveNan(value) ==
    IF value = PyNone THEN <<>>
    ELSE IF value = FloatNaN THEN <<>>
    ELSE LET text == Strip(value)
         IN  IF text = <<>> \/ text = <<"n", "a", "n">> THEN <<>>
             ELSE StripParts(ReSplit(text))

split_multi_value(value) ==
    IF value = PyNone THEN <<>>
    ELSE IF value = FloatNaN THEN <<>>
    ELSE LET text == Strip(value)
         IN  IF text = <<>> \/ Lower(text) = <<"n", "a", "n">> THEN <<>>
             ELSE StripParts(ReSplit(text))

SvAlphabet == {"A", "B", " ", JP_COMMA, ",", FW_COMMA, ";", FW_SEMICOLON}
SvExamples ==
    {PyNone, FloatNaN, <<"n", "a", "n">>, <<"N", "a", "N">>, <<" ", "N", "A", "N", " ">>,
     <<"A", "/", "B">>, <<"A", FW_SLASH, "B">>, <<"A", JP_MIDDOT, "B">>, <<"A", LF, "B">>,
     <<"A", JP_COMMA, " ", ",", "B", ";">>, <<"B", ",", "A", ";", "B">>}
SvValues == SeqsUpTo(SvAlphabet, MaxTextLen) \cup SvExamples

SvInit == sv_val \in SvValues /\ sv_done = FALSE /\ sv_out = <<>>

Split ==
    /\ ~sv_done
    /\ sv_done' = TRUE
    /\ sv_out' = split_multi_value(sv_val)
    /\ UNCHANGED sv_val

SvNext == Split /\ UNCHANGED <<nl_vars, ag_vars, fd_vars, dt_vars, ld_vars, view_vars>>

SvSpecInit == SvInit /\ NlIdle /\ AgIdle /\ FdIdle /\ DtIdle /\ LdIdle /\ ViewIdle
SvSpec == SvSpecInit /\ [][SvNext]_vars

(***************************************************************************)
(* Tables.  A cell is NaN or holds a value; a DataFrame has a set of       *)
(* columns, the index label of each row, its rows, and per column the      *)
(* dtype "object" or "category" with the categories of the column (which   *)
(* may include values that no row holds, as after a filter).               *)
(***************************************************************************)
NaN == [isna |-> TRUE]
Val(v) == [isna |-> FALSE, v |-> v]

ObjectDtype == [dtype |-> "object", categories |-> {}]
CategoryDtype(cats) == [dtype |-> "category", categories |-> cats]

\* df[column]
Column(df, column) ==
    [values |-> [i \in 1..Len(df.rows) |-> df.rows[i][column]], dt |-> df.dtypes[column]]

\* Series.dropna(): the categories of a categorical series are kept.
DropNa(series) ==
    [values |-> SelectSeq(series.values, LAMBDA c : ~c.isna), dt |-> series.dt]

\* series.map(lambda v: _normalize_label(key, v)) on a series without nulls.
\* On a categorical series pandas maps the categories: the result stays
\* categorical, unused categories included, when the mapped categories are
\* distinct, and is a plain series of the mapped values otherwise.
MapNormalize(series, key) ==
    LET vals == [i \in 1..Len(series.values) |-> Val(_normalize_label(key, series.values[i].v))]
        newcats == {_normalize_label(key, c) : c \in series.dt.categories}
    IN  IF series.dt.dtype = "category"
           /\ Cardinality(newcats) = Cardinality(series.dt.categories)
        THEN [values |-> vals, dt |-> CategoryDtype(newcats)]
        ELSE [values |-> vals, dt |-> ObjectDtype]

\* The distinct values of a sequence, in order of first occurrence.
RECURSIVE Distinct(_)
Distinct(seq) ==
    IF seq = <<>> THEN <<>>
    ELSE LET front == Distinct(SubSeq(seq, 1, Len(seq) - 1))
             last == seq[Len(seq)]
         IN  IF \E i \in 1..Len(front) : front[i] = last THEN front ELSE Append(front, last)

\* The elements of a finite set in some fixed order.
RECURSIVE SetToSeq(_)
SetToSeq(S) ==
    IF S = {} THEN <<>>
    ELSE LET x == CHOOSE x \in S : TRUE IN <<x>> \o SetToSeq(S \ {x})

Occurrences(values, label) == Cardinality({i \in 1..Len(values) : values[i].v = label})

\* A frequency table (a pandas Series of counts indexed by label) is the
\* sequence of its <<label, count>> entries.
Index(ft) == {ft[i].label : i \in 1..Len(ft)}
CountOf(ft, label) == (CHOOSE e \in {ft[i] : i \in 1..Len(ft)} : e.label = label).count
RECURSIVE Total(_)
Total(ft) == IF ft = <<>> THEN 0 ELSE Head(ft).count + Total(Tail(ft))
Labels(ft) == [i \in 1..Len(ft) |-> ft[i].label]

\* Insert e behind every entry whose count is at least e's.
RECURSIVE InsertDesc(_, _)
InsertDesc(sorted, e) ==
    IF sorted = <<>> THEN <<e>>
    ELSE IF Head(sorted).count >= e.count THEN <<Head(sorted)>> \o InsertDesc(Tail(sorted), e)
    ELSE <<e>> \o sorted

\* sort_values(ascending=False): by count, entries of equal count in their
\* given order.
RECURSIVE SortDesc(_)
SortDesc(ft) ==
    IF ft = <<>> THEN <<>>
    ELSE InsertDesc(SortDesc(SubSeq(ft, 1, Len(ft) - 1)), ft[Len(ft)])

\* Series.value_counts(): one entry per value that occurs; a categorical
\* series also has an entry, with count 0, for each category that does not
\* occur.  Sorted by count, descending.
value_counts(series) ==
    LET vals == [i \in 1..Len(series.values) |-> series.values[i].v]
        seen == Distinct(vals)
        unused == IF series.dt.dtype = "category"
                  THEN SetToSeq(series.dt.categories \ {seen[i] : i \in 1..Len(seen)})
                  ELSE <<>>
        labels == seen \o unused
    IN  SortDesc([i \in 1..Len(labels) |->
                    [label |-> labels[i], count |-> Occurrences(series.values, labels[i])]])

\* counts.reindex(labels), every label being in the index of counts.
reindex(ft, labels) ==
    [i \in 1..Len(labels) |-> [label |-> labels[i], count |-> CountOf(ft, labels[i])]]

(***************************************************************************)
(* OPTION_ORDERS                                                           *)
(***************************************************************************)
\* OPTION_ORDERS["手続類型"]
ORDER_TYPE ==
    << <<"U+7533", "U+8ACB", "U+30FB", "U+5C4A", "U+51FA">>,   \* 申請・届出
       <<"U+5BE9", "U+67FB", "U+30FB", "U+6C7A", "U+5B9A">>,   \* 審査・決定
       <<"U+5831", "U+544A", "U+30FB", "U+901A", "U+77E5">>,   \* 報告・通知
       <<"U+7D0D", "U+4ED8">>,   \* 納付
       <<"U+4EA4", "U+4ED8", "U+7B49">>,   \* 交付等
       <<"U+76F8", "U+8AC7">>,   \* 相談
       <<"U+7167", "U+4F1A", "U+30FB", "U+95B2", "U+89A7">>,   \* 照会・閲覧
       <<"U+8A18", "U+5E33", "U+30FB", "U+8A18", "U+8F09", "U+30FB", "U+66F8", "U+985E", "U+4F5C", "U+6210">>,   \* 記帳・記載・書類作成
       <<"U+305D", "U+306E", "U+4ED6">>,   \* その他
       <<"U+4EA4", "U+4ED8", "U+7B49", "U+FF08", "U+6C11", "U+9593", "U+624B", "U+7D9A", "U+FF09">> >>   \* 交付等（民間手続）
\* OPTION_ORDERS["オンライン化の実施状況"]
ORDER_STATUS ==
    << <<"U+5B9F", "U+65BD", "U+6E08">>,   \* 実施済
       <<"U+4E00", "U+90E8", "U+5B9F", "U+65BD", "U+6E08">>,   \* 一部実施済
       <<"U+672A", "U+5B9F", "U+65BD">>,   \* 未実施
       <<"U+9069", "U+7528", "U+9664", "U+5916">>,   \* 適用除外
       <<"U+305D", "U+306E", "U+4ED6">> >>   \* その他
\* OPTION_ORDERS["手続主体"]
ORDER_ACTOR ==
    << <<"U+56FD">>,   \* 国
       <<"U+72EC", "U+7ACB", "U+884C", "U+653F", "U+6CD5", "U+4EBA", "U+7B49">>,   \* 独立行政法人等
       <<"U+5730", "U+65B9", "U+7B49">>,   \* 地方等
       <<"U+56FD", "U+53C8", "U+306F", "U+72EC", "U+7ACB", "U+884C", "U+653F", "U+6CD5", "U+4EBA", "U+7B49">>,   \* 国又は独立行政法人等
       <<"U+72EC", "U+7ACB", "U+884C", "U+653F", "U+6CD5", "U+4EBA", "U+7B49", "U+53C8", "U+306F", "U+5730", "U+65B9", "U+7B49">>,   \* 独立行政法人等又は地方等
       <<"U+56FD", "U+53C8", "U+306F", "U+5730", "U+65B9", "U+7B49">>,   \* 国又は地方等
       <<"U+56FD", "U+3001", "U+72EC", "U+7ACB", "U+884C", "U+653F", "U+6CD5", "U+4EBA", "U+7B49", "U+53C8", "U+306F", "U+5730", "U+65B9", "U+7B49">>,   \* 国、独立行政法人等又は地方等
       <<"U+56FD", "U+6C11", "U+7B49">>,   \* 国民等
       <<"U+6C11", "U+9593", "U+4E8B", "U+696D", "U+8005", "U+7B49">>,   \* 民間事業者等
       <<"U+56FD", "U+6C11", "U+7B49", "U+3001", "U+6C11", "U+9593", "U+4E8B", "U+696D", "U+8005", "U+7B49">> >>   \* 国民等、民間事業者等
\* OPTION_ORDERS["手続の受け手"]
ORDER_RECEIVER ==
    << <<"U+56FD">>,   \* 国
       <<"U+72EC", "U+7ACB", "U+884C", "U+653F", "U+6CD5", "U+4EBA", "U+7B49">>,   \* 独立行政法人等
       <<"U+5730", "U+65B9", "U+7B49">>,   \* 地方等
       <<"U+56FD", "U+53C8", "U+306F", "U+72EC", "U+7ACB", "U+884C", "U+653F", "U+6CD5", "U+4EBA", "U+7B49">>,   \* 国又は独立行政法人等
       <<"U+72EC", "U+7ACB", "U+884C", "U+653F", "U+6CD5", "U+4EBA", "U+7B49", "U+53C8", "U+306F", "U+5730", "U+65B9", "U+7B49">>,   \* 独立行政法人等又は地方等
       <<"U+56FD", "U+53C8", "U+306F", "U+5730", "U+65B9", "U+7B49">>,   \* 国又は地方等
       <<"U+56FD", "U+3001", "U+72EC", "U+7ACB", "U+884C", "U+653F", "U+6CD5", "U+4EBA", "U+7B49", "U+53C8", "U+306F", "U+5730", "U+65B9", "U+7B49">>,   \* 国、独立行政法人等又は地方等
       <<"U+56FD", "U+6C11", "U+7B49">>,   \* 国民等
       <<"U+6C11", "U+9593", "U+4E8B", "U+696D", "U+8005", "U+7B49">>,   \* 民間事業者等
       <<"U+56FD", "U+6C11", "U+7B49", "U+3001", "U+6C11", "U+9593", "U+4E8B", "U+696D", "U+8005", "U+7B49">> >>   \* 国民等、民間事業者等
\* OPTION_ORDERS["事務区分"]
ORDER_OFFICE ==
    << <<"U+81EA", "U+6CBB", "U+4E8B", "U+52D9">>,   \* 自治事務
       <<"U+7B2C", "1", "U+53F7", "U+6CD5", "U+5B9A", "U+53D7", "U+8A17", "U+4E8B", "U+52D9">>,   \* 第1号法定受託事務
       <<"U+7B2C", "2", "U+53F7", "U+6CD5", "U+5B9A", "U+53D7", "U+8A17", "U+4E8B", "U+52D9">>,   \* 第2号法定受託事務
       <<"U+5730", "U+65B9", "U+306E", "U+4E8B", "U+52D9", "U+3067", "U+306A", "U+3044">> >>   \* 地方の事務でない
\* OPTION_ORDERS["府省共通手続"]
ORDER_COMMON ==
    << <<"U+25CB", "U+FF08", "U+5168", "U+5E9C", "U+7701", "U+FF09">>,   \* ○（全府省）
       <<"U+25CF", "U+FF08", "U+4E00", "U+90E8", "U+306E", "U+5E9C", "U+7701", "U+FF09">>,   \* ●（一部の府省）
       <<"U+00D7", "U+FF08", "U+5E9C", "U+7701", "U+5171", "U+901A", "U+624B", "U+7D9A", "U+3067", "U+306A", "U+3044", ")">> >>   \* ×（府省共通手続でない)

OPTION_ORDERS_KEYS == {COL_TYPE, COL_STATUS, COL_ACTOR, COL_RECEIVER, COL_OFFICE, COL_COMMON}

\* OPTION_ORDERS[key], for a key of the dictionary.
OPTION_ORDERS(key) ==
    CASE key = COL_TYPE -> ORDER_TYPE
      [] key = COL_STATUS -> ORDER_STATUS
      [] key = COL_ACTOR -> ORDER_ACTOR
      [] key = COL_RECEIVER -> ORDER_RECEIVER
      [] key = COL_OFFICE -> ORDER_OFFICE
      [] key = COL_COMMON -> ORDER_COMMON

\* An optional list argument: None, or a list.
NoneOrder == [given |-> FALSE, list |-> <<>>]
ListOrder(l) == [given |-> TRUE, list |-> l]
\* OPTION_ORDERS.get(key)
OPTION_ORDERS_get(key) ==
    IF key \in OPTION_ORDERS_KEYS THEN ListOrder(OPTION_ORDERS(key)) ELSE NoneOrder
\* "if order": neither None nor the empty list.
Truthy(order) == order.given /\ order.list # <<>>

(***************************************************************************)
(* normalized_counts, multi_value_counts                                   *)
(***************************************************************************)
EmptySeries == <<>>      \* pd.Series(dtype=int)

\* Mutant of OrderedBy: vc.reindex(order, fill_value=0), the whole order list
\* with a count of 0 for a label that is not in the index.
OrderedBy_WholeList(vc, order) ==
    [i \in 1..Len(order.list) |->
        [label |-> order.list[i],
         count |-> IF order.list[i] \in Index(vc) THEN CountOf(vc, order.list[i]) ELSE 0]]

\* vc.reindex([v for v in order if v in vc.index]).dropna()
OrderedBy(vc, order) ==
    reindex(vc, SelectSeq(order.list, LAMBDA v : v \in Index(vc)))

normalized_counts(df, column, key) ==
    IF column \notin df.columns \/ Len(df.rows) = 0 THEN EmptySeries
    ELSE LET series == MapNormalize(DropNa(Column(df, column)), key)
             vc == value_counts(series)
             order == OPTION_ORDERS_get(key)
         IN  IF Truthy(order) /\ key # COL_TYPE /\ Len(OrderedBy(vc, order)) > 0
             THEN OrderedBy(vc, order)
             ELSE vc

\* values.extend(split_multi_value(val)) for val in series
RECURSIVE ExtendAll(_)
ExtendAll(cells) ==
    IF cells = <<>> THEN <<>>
    ELSE split_multi_value(Head(cells).v) \o ExtendAll(Tail(cells))

\* df.empty
IsEmpty(df) == Len(df.rows) = 0 \/ df.columns = {}

multi_value_counts(df, column, order) ==
    IF column \notin df.columns \/ IsEmpty(df) THEN EmptySeries
    ELSE LET values == ExtendAll(DropNa(Column(df, column)).values)
             counts == value_counts([values |-> [i \in 1..Len(values) |-> Val(values[i])],
                                     dt |-> ObjectDtype])
         IN  IF values = <<>> THEN EmptySeries
             ELSE IF Truthy(order) /\ Len(OrderedBy(counts, order)) > 0
                  THEN OrderedBy(counts, order)
                  ELSE counts

(***************************************************************************)
(* Aggregation runs: one call of normalized_counts or multi_value_counts   *)
(* on a one-column table (or a table without the column).                  *)
(***************************************************************************)
LABEL_X == <<"x">>
LABEL_Y == <<"y">>

\* Raw cell values of the column aggregated under a key.
AgPool(key) ==
    CASE key = COL_STATUS ->
            {ORDER_STATUS[1], <<"1">> \o ORDER_STATUS[1], ORDER_STATUS[3], LABEL_X}
      [] key = COL_TYPE ->
            {ORDER_TYPE[1], <<"2", "-", "1", " ">> \o ORDER_TYPE[1], ORDER_TYPE[4], LABEL_X}
      [] key = COL_COMMON ->
            {ORDER_COMMON[1], ORDER_COMMON[3], LABEL_X}
      [] OTHER ->
            {LABEL_X, LABEL_Y, <<" ">> \o LABEL_X}
AgKeys == {COL_STATUS, COL_TYPE, COL_COMMON, COL_MINISTRY}

\* Multi-value cells, and the order lists passed to multi_value_counts.
MvPool ==
    {<<"A", JP_COMMA, "B">>, <<"B", ",", "A">>, <<"A">>, <<"C", ";", "C">>, <<JP_COMMA>>}
MvOrders ==
    {NoneOrder, ListOrder(<<>>), ListOrder(<< <<"B">>, <<"A">> >>),
     ListOrder(<< <<"Z">> >>), ListOrder(<< <<"Z">>, <<"C">> >>)}

\* A table with the one column `column` (or, when not present, without it).
MkDf(column, present, cells, dt) ==
    [columns |-> IF present THEN {column} ELSE {},
     index |-> [i \in 1..Len(cells) |-> i - 1],
     rows |-> [i \in 1..Len(cells) |-> IF present THEN (column :> cells[i]) ELSE <<>>],
     dtypes |-> IF present THEN (column :> dt) ELSE <<>>]

\* The dtypes a column of these cells can have: object, or category with
\* categories that include every value present.
PresentValues(cells) == {cells[i].v : i \in {j \in 1..Len(cells) : ~cells[j].isna}}
DtypesFor(cells, pool) ==
    {ObjectDtype} \cup {CategoryDtype(S) : S \in {T \in SUBSET pool : PresentValues(cells) \subseteq T}}

CellSeqs(pool) == SeqsUpTo({Val(v) : v \in pool} \cup {NaN}, MaxCells)

NcTables(key) ==
    UNION {{MkDf(key, TRUE, cells, dt) : dt \in DtypesFor(cells, AgPool(key))} : cells \in CellSeqs(AgPool(key))}
    \cup {MkDf(key, FALSE, cells, ObjectDtype) : cells \in SeqsUpTo({NaN}, 1)}
MvTables ==
    {MkDf(COL_EVENT, TRUE, cells, ObjectDtype) : cells \in CellSeqs(MvPool)}
    \cup {MkDf(COL_EVENT, FALSE, cells, ObjectDtype) : cells \in SeqsUpTo({NaN}, 1)}

AgInit ==
    /\ ag_done = FALSE
    /\ ag_out = <<>>
    /\ \/ /\ ag_fn = "normalized_counts"
          /\ ag_key \in AgKeys
          /\ ag_column = ag_key
          /\ ag_df \in NcTables(ag_key)
          /\ ag_order = NoneOrder
       \/ /\ ag_fn = "multi_value_counts"
          /\ ag_key = ""
          /\ ag_column = COL_EVENT
          /\ ag_df \in MvTables
          /\ ag_order \in MvOrders

CallNormalizedCounts ==
    /\ ag_fn = "normalized_counts" /\ ~ag_done
    /\ ag_done' = TRUE
    /\ ag_out' = normalized_counts(ag_df, ag_column, ag_key)
    /\ UNCHANGED <<ag_df, ag_column, ag_key, ag_order, ag_fn>>

CallMultiValueCounts ==
    /\ ag_fn = "multi_value_counts" /\ ~ag_done
    /\ ag_done' = TRUE
    /\ ag_out' = multi_value_counts(ag_df, ag_column, ag_order)
    /\ UNCHANGED <<ag_df, ag_column, ag_key, ag_order, ag_fn>>

AgNext ==
    \/ CallNormalizedCounts /\ UNCHANGED <<nl_vars, sv_vars, fd_vars, dt_vars, ld_vars, view_vars>>
    \/ CallMultiValueCounts /\ UNCHANGED <<nl_vars, sv_vars, fd_vars, dt_vars, ld_vars, view_vars>>

AgSpecInit == AgInit /\ NlIdle /\ SvIdle /\ FdIdle /\ DtIdle /\ LdIdle /\ ViewIdle
AgSpec == AgSpecInit /\ [][AgNext]_vars

(***************************************************************************)
(* filter_dataframe                                                        *)
(***************************************************************************)
\* The names of the count ranges (main's count_ranges, and the literals the
\* filter compares with).
RANGE_1M_UP == "1000000-"          \* 100万件以上
RANGE_100K_1M == "100000-1000000"  \* 10万件以上100万件未満
RANGE_10K_100K == "10000-100000"   \* 1万件以上10万件未満
RANGE_1K_10K == "1000-10000"       \* 1000件以上1万件未満
RANGE_100_1K == "100-1000"         \* 100件以上1000件未満
RANGE_10_100 == "10-100"           \* 10件以上100件未満
RANGE_1_10 == "1-10"               \* 1件以上10件未満
RANGE_0 == "0 or unknown"          \* 0件もしくは不明

\* The options of main's multiselect, in its order.
count_ranges ==
    <<RANGE_1M_UP, RANGE_100K_1M, RANGE_10K_100K, RANGE_1K_10K,
      RANGE_100_1K, RANGE_10_100, RANGE_1_10, RANGE_0>>

\* Comparisons of a cell with a number: False on NaN.
Ge(c, n) == ~c.isna /\ c.v >= n
Lt(c, n) == ~c.isna /\ c.v < n
Eq(c, n) == ~c.isna /\ c.v = n

\* One pass of the loop over count_ranges: what range_str ORs into count_mask
\* for a cell of the total-count column.  A name that matches no branch adds
\* nothing.
RangeMask(range_str, c) ==
    CASE range_str = RANGE_1M_UP -> Ge(c, 1000000)
      [] range_str = RANGE_100K_1M -> Ge(c, 100000) /\ Lt(c, 1000000)
      [] range_str = RANGE_10K_100K -> Ge(c, 10000) /\ Lt(c, 100000)
      [] range_str = RANGE_1K_10K -> Ge(c, 1000) /\ Lt(c, 10000)
      [] range_str = RANGE_100_1K -> Ge(c, 100) /\ Lt(c, 1000)
      [] range_str = RANGE_10_100 -> Ge(c, 10) /\ Lt(c, 100)
      [] range_str = RANGE_1_10 -> Ge(c, 1) /\ Lt(c, 10)
      [] range_str = RANGE_0 -> Eq(c, 0) \/ c.isna
      [] OTHER -> FALSE

\* count_mask after the loop.
CountMask(ranges, c) == \E j \in 1..Len(ranges) : RangeMask(ranges[j], c)

\* Series.isin(values), the values holding no NaN.
Isin(c, values) == ~c.isna /\ c.v \in values

\* The column each categorical argument is tested against.
ArgColumn(arg) ==
    CASE arg = "ministries" -> COL_MINISTRY
      [] arg = "statuses" -> COL_STATUS
      [] arg = "types" -> COL_TYPE
      [] arg = "recipients" -> COL_RECEIVER
      [] arg = "actors" -> COL_ACTOR
      [] arg = "receivers" -> COL_RECEIVER
      [] arg = "office_types" -> COL_OFFICE
      [] arg = "is_common" -> COL_COMMON
CategoricalArgs ==
    {"ministries", "statuses", "types", "recipients", "actors", "receivers",
     "office_types", "is_common"}

\* Mutant of RowMask: the office_types selection is not applied.
RowMask_SkipsOfficeTypes(row, args) ==
    /\ \A arg \in CategoricalArgs \ {"office_types"} :
          args[arg] # {} => Isin(row[ArgColumn(arg)], args[arg])
    /\ args["count_ranges"] # <<>> => CountMask(args["count_ranges"], row[COL_TOTAL])

\* Mutant of RowMask: the count ranges are closed above, [lo, hi].
RowMask_ClosedRanges(row, args) ==
    /\ \A arg \in CategoricalArgs :
          args[arg] # {} => Isin(row[ArgColumn(arg)], args[arg])
    /\ args["count_ranges"] # <<>> =>
          \E j \in 1..Len(args["count_ranges"]) :
              \/ RangeMask(args["count_ranges"][j], row[COL_TOTAL])
              \/ /\ args["count_ranges"][j] = RANGE_1_10 /\ Eq(row[COL_TOTAL], 10)

\* mask for one row: every selection that is not empty (None or []) admits
\* the row's cell, and so does the count mask when count_ranges is not empty.
RowMask(row, args) ==
    /\ \A arg \in CategoricalArgs :
          args[arg] # {} => Isin(row[ArgColumn(arg)], args[arg])
    /\ args["count_ranges"] # <<>> => CountMask(args["count_ranges"], row[COL_TOTAL])

\* The columns the call reads: df[col] for each selection that is not empty.
ColumnsRead(args) ==
    {ArgColumn(arg) : arg \in {a \in CategoricalArgs : args[a] # {}}}
    \cup (IF args["count_ranges"] # <<>> THEN {COL_TOTAL} ELSE {})

\* The positions of the rows of df whose mask is True, in order.
Kept(df, args) ==
    SelectSeq([i \in 1..Len(df.rows) |-> i], LAMBDA i : RowMask(df.rows[i], args))

\* Mutant of filter_dataframe: the rows that pass, last first.
filter_dataframe_Reversed(df, args) ==
    LET keep == Kept(df, args)
        n == Len(keep)
    IN  [raised |-> "",
         df |-> [columns |-> df.columns,
                 index |-> [k \in 1..n |-> df.index[keep[n + 1 - k]]],
                 rows |-> [k \in 1..n |-> df.rows[keep[n + 1 - k]]],
                 dtypes |-> df.dtypes]]

\* Mutant of filter_dataframe: a call without selections returns no rows.
filter_dataframe_EmptyOnNoFilter(df, args) ==
    LET keep == IF ColumnsRead(args) = {} THEN <<>> ELSE Kept(df, args)
    IN  [raised |-> "",
         df |-> [columns |-> df.columns,
                 index |-> [k \in 1..Len(keep) |-> df.index[keep[k]]],
                 rows |-> [k \in 1..Len(keep) |-> df.rows[keep[k]]],
                 dtypes |-> df.dtypes]]

\* filter_dataframe(df, ...): df[mask], the rows whose mask is True with their
\* index labels, in the order of df; KeyError when a column that is read is
\* not in df.
filter_dataframe(df, args) ==
    IF ~(ColumnsRead(args) \subseteq df.columns)
    THEN [raised |-> "KeyError", df |-> df]
    ELSE LET keep == Kept(df, args)
         IN  [raised |-> "",
              df |-> [columns |-> df.columns,
                      index |-> [k \in 1..Len(keep) |-> df.index[keep[k]]],
                      rows |-> [k \in 1..Len(keep) |-> df.rows[keep[k]]],
                      dtypes |-> df.dtypes]]

(***************************************************************************)
(* Filter runs: filter_dataframe on a table, then again on its result.     *)
(***************************************************************************)
FdColumns ==
    {COL_MINISTRY, COL_STATUS, COL_TYPE, COL_RECEIVER, COL_ACTOR, COL_OFFICE,
     COL_COMMON, COL_TOTAL}
FdCategorical == FdColumns \ {COL_TOTAL}

FdBaseRow == [c \in FdColumns |-> IF c = COL_TOTAL THEN Val(5) ELSE Val(LABEL_X)]
FdRow(column, cell) == [FdBaseRow EXCEPT ![column] = cell]

\* Rows that differ from the base row in one cell.
FdRowPool ==
    {FdBaseRow}
    \cup {FdRow(c, Val(LABEL_Y)) : c \in FdCategorical}
    \cup {FdRow(COL_RECEIVER, NaN), FdRow(COL_TOTAL, Val(0))}

\* Total counts at and around the bounds of every range.
BoundaryCounts ==
    {0, 1, 9, 10, 99, 100, 999, 1000, 9999, 10000, 99999, 100000, 999999,
     1000000, 5000000}
FdCountRowPool == {FdRow(COL_TOTAL, Val(n)) : n \in BoundaryCounts} \cup {FdRow(COL_TOTAL, NaN)}

FdTable(rows) ==
    [columns |-> FdColumns,
     index |-> [i \in 1..Len(rows) |-> i - 1],
     rows |-> rows,
     dtypes |-> [c \in FdColumns |->
                    IF c = COL_TOTAL THEN ObjectDtype ELSE CategoryDtype({LABEL_X, LABEL_Y})]]

FdNoArgs ==
    [a \in CategoricalArgs \cup {"count_ranges"} |-> IF a = "count_ranges" THEN <<>> ELSE {}]

\* One argument set to a selection.
FdChoices ==
    {<<a, {LABEL_X}>> : a \in CategoricalArgs}
    \cup {<<"recipients", {LABEL_X, LABEL_Y}>>,
          <<"count_ranges", <<RANGE_0, RANGE_10_100>>>>}
\* The argument sets with at most two selections.
FdArgSets ==
    {FdNoArgs}
    \cup {[FdNoArgs EXCEPT ![c[1]] = c[2]] : c \in FdChoices}
    \cup {[FdNoArgs EXCEPT ![p[1][1]] = p[1][2], ![p[2][1]] = p[2][2]] :
             p \in {q \in FdChoices \X FdChoices : q[1][1] # q[2][1]}}

FdInit ==
    /\ fd_out = <<>>
    /\ fd_df \in {FdTable(rows) : rows \in SeqsUpTo(FdRowPool, MaxRows)}
    /\ fd_args \in FdArgSets
    /\ fd_src = fd_df

\* Runs on the count ranges: one range selected, the total counts at the
\* bounds of the ranges.
RgInit ==
    /\ fd_out = <<>>
    /\ fd_df \in {FdTable(rows) : rows \in SeqsUpTo(FdCountRowPool, MaxRows)}
    /\ fd_args \in {[FdNoArgs EXCEPT !["count_ranges"] = <<r>>] : r \in Range(count_ranges)}
    /\ fd_src = fd_df

\* Mutant of FilterApply: the table passed is cut down to the result.
FilterApply_InPlace ==
    /\ fd_out = <<>>
    /\ fd_out' = <<filter_dataframe(fd_df, fd_args)>>
    /\ fd_df' = filter_dataframe(fd_df, fd_args).df
    /\ UNCHANGED <<fd_src, fd_args>>

\* filtered_df = filter_dataframe(df, ...)
FilterApply ==
    /\ fd_out = <<>>
    /\ fd_out' = <<filter_dataframe(fd_df, fd_args)>>
    /\ UNCHANGED <<fd_df, fd_src, fd_args>>

\* filter_dataframe(filtered_df, ...) with the same arguments.
FilterAgain ==
    /\ Len(fd_out) = 1
    /\ fd_out[1].raised = ""
    /\ fd_out' = Append(fd_out, filter_dataframe(fd_out[1].df, fd_args))
    /\ UNCHANGED <<fd_df, fd_src, fd_args>>

FdNext ==
    \/ FilterApply /\ UNCHANGED <<nl_vars, sv_vars, ag_vars, dt_vars, ld_vars, view_vars>>
    \/ FilterAgain /\ UNCHANGED <<nl_vars, sv_vars, ag_vars, dt_vars, ld_vars, view_vars>>

FdSpecInit == FdInit /\ NlIdle /\ SvIdle /\ AgIdle /\ DtIdle /\ LdIdle /\ ViewIdle
FdSpec == FdSpecInit /\ [][FdNext]_vars

RgNext == FilterApply /\ UNCHANGED <<nl_vars, sv_vars, ag_vars, dt_vars, ld_vars, view_vars>>
RgSpecInit == RgInit /\ NlIdle /\ SvIdle /\ AgIdle /\ DtIdle /\ LdIdle /\ ViewIdle
RgSpec == RgSpecInit /\ [][RgNext]_vars

(***************************************************************************)
(* Filter runs on a table that lacks one column of the schema.             *)
(***************************************************************************)
\* The table without one of its columns.
FdWithout(df, column) ==
    [columns |-> df.columns \ {column},
     index |-> df.index,
     rows |-> [i \in 1..Len(df.rows) |-> [c \in df.columns \ {column} |-> df.rows[i][c]]],
     dtypes |-> [c \in df.columns \ {column} |-> df.dtypes[c]]]

McMissing == {COL_MINISTRY, COL_RECEIVER, COL_OFFICE, COL_TOTAL}

McInit ==
    /\ fd_out = <<>>
    /\ fd_df \in {FdWithout(FdTable(rows), c) :
                    rows \in SeqsUpTo(FdRowPool, MaxRows), c \in McMissing}
    /\ fd_args \in {FdNoArgs} \cup {[FdNoArgs EXCEPT ![c[1]] = c[2]] : c \in FdChoices}
    /\ fd_src = fd_df

McNext == FilterApply /\ UNCHANGED <<nl_vars, sv_vars, ag_vars, dt_vars, ld_vars, view_vars>>
McSpecInit == McInit /\ NlIdle /\ SvIdle /\ AgIdle /\ DtIdle /\ LdIdle /\ ViewIdle
McSpec == McSpecInit /\ [][McNext]_vars

(***************************************************************************)
(* COLUMNS and the procedure detail view.                                  *)
(***************************************************************************)
COL_ID == "tetsuzuki_id"                   \* 手続ID
COL_NAME == "tetsuzuki_mei"                \* 手続名
COL_LAW == "horei_mei"                     \* 法令名
COL_FAX == "fax_bango"                     \* FAX番号
COL_ONLINE == "online_tetsuzuki_kensu"     \* オンライン手続件数
COL_OFFLINE == "hi_online_tetsuzuki_kensu" \* 非オンライン手続件数
COL_RATE == "online_ka_ritsu"              \* オンライン化率

\* COLUMNS, the 37 declared fields in their order.
COLUMNS ==
    <<COL_ID, COL_NAME, "tetsuzuki_mei_kana", "tetsuzuki_mei_eigo", COL_LAW,
      "horei_mei_kana", "horei_bango", "konkyo_joko", "konkyo_joko_go",
      COL_TYPE, "tetsuzuki_no_gaiyo", COL_RECEIVER, COL_ACTOR,
      COL_EVENT, "life_event_hojin",
      COL_MINISTRY, "soshiki", "tanto_kashitsu", "denwa_bango", COL_FAX, "mail",
      "tetsuzuki_url", COL_STATUS, "tempu_shorui",
      "tempu_teppai_shoryaku", "tempu_teishutsu_hoho",
      "tempu_denshi_shomei", "system_shinsei", "system_jimu_shori",
      COL_OFFICE, COL_COMMON, "kanren_shigyo", "online_tetsuzuki_url",
      COL_TOTAL, COL_ONLINE, COL_OFFLINE, "chosa_nen">>

numeric_columns == <<COL_TOTAL, COL_ONLINE, COL_OFFLINE>>

DigitChars == <<"0", "1", "2", "3", "4", "5", "6", "7", "8", "9">>
\* str(n) of an integer.
RECURSIVE NatToText(_)
NatToText(n) ==
    IF n < 10 THEN <<DigitChars[n + 1]>>
    ELSE Append(NatToText(n \div 10), DigitChars[(n % 10) + 1])
IntToText(n) == IF n < 0 THEN <<"-">> \o NatToText(0 - n) ELSE NatToText(n)

\* str(value) of a cell that is not null.
PyStr(column, cell) ==
    IF column \in Range(numeric_columns) THEN IntToText(cell.v) ELSE cell.v

DASH == <<"U+2014">>             \* the placeholder
NAME_UNKNOWN == <<"<unknown name>">>  \* 名称不明

important_cols == <<COL_ID, COL_NAME, COL_LAW, COL_MINISTRY, COL_STATUS>>

ordered_cols ==
    important_cols \o SelectSeq(COLUMNS, LAMBDA c : c \notin Range(important_cols))

\* data_dict of the all-fields expander: for each column of ordered_cols that
\* the record has, its text, or the placeholder when it is null or blank.
data_dict(r) ==
    LET present == SelectSeq(ordered_cols, LAMBDA c : c \in DOMAIN r)
    IN  [i \in 1..Len(present) |->
            [name |-> present[i],
             value |-> IF ~r[present[i]].isna /\ Strip(PyStr(present[i], r[present[i]])) # <<>>
                       THEN PyStr(present[i], r[present[i]]) ELSE DASH]]

\* df[df['手続ID'] == proc_id]: the positions of the matching rows, in order.
FindById(df, proc_id) ==
    SelectSeq([i \in 1..Len(df.rows) |-> i],
              LAMBDA i : ~df.rows[i][COL_ID].isna /\ df.rows[i][COL_ID].v = proc_id)

NothingRendered(proc_id) ==
    [error |-> <<proc_id>>, record |-> <<>>, title |-> <<>>, fields |-> <<>>]

\* Mutant of _render_procedure_detail: the last matching row is rendered.
_render_procedure_detail_Last(proc_id, df) ==
    LET procedure == FindById(df, proc_id)
        r == df.rows[procedure[Len(procedure)]]
    IN  IF procedure = <<>> THEN NothingRendered(proc_id)
        ELSE [error |-> <<>>,
              record |-> <<df.index[procedure[Len(procedure)]]>>,
              title |-> IF COL_NAME \in DOMAIN r THEN r[COL_NAME] ELSE Val(NAME_UNKNOWN),
              fields |-> data_dict(r)]

\* _render_procedure_detail: the error message and nothing else when no row
\* matches; otherwise the record procedure.iloc[0] with its title and the
\* all-fields table.
_render_procedure_detail(proc_id, df) ==
    LET procedure == FindById(df, proc_id)
        r == df.rows[procedure[1]]
    IN  IF procedure = <<>> THEN NothingRendered(proc_id)
        ELSE [error |-> <<>>,
              record |-> <<df.index[procedure[1]]>>,
              title |-> IF COL_NAME \in DOMAIN r THEN r[COL_NAME] ELSE Val(NAME_UNKNOWN),
              fields |-> data_dict(r)]

show_procedure_detail(procedure_id, df) ==
    IF FindById(df, procedure_id) = <<>> THEN NothingRendered(procedure_id)
    ELSE _render_procedure_detail(procedure_id, df)

\* The rows listed under "関連する他の手続": same 法令名 and another id; when
\* there is none, same 所管府省庁 and 手続類型 and another id.  The list needs
\* the columns it reads (an exception leaves it out).
CellEq(a, b) == ~a.isna /\ ~b.isna /\ a.v = b.v
OtherId(row, proc_id) == row[COL_ID].isna \/ row[COL_ID].v # proc_id
HasValue(r, c) == c \in DOMAIN r /\ ~r[c].isna
Related(proc_id, df) ==
    LET r == df.rows[FindById(df, proc_id)[1]]
        rows == 1..Len(df.rows)
        by_law == IF HasValue(r, COL_LAW)
                  THEN {i \in rows : CellEq(df.rows[i][COL_LAW], r[COL_LAW])
                                     /\ OtherId(df.rows[i], proc_id)}
                  ELSE {}
        by_kind == IF HasValue(r, COL_MINISTRY) /\ HasValue(r, COL_TYPE)
                   THEN {i \in rows : CellEq(df.rows[i][COL_MINISTRY], r[COL_MINISTRY])
                                      /\ CellEq(df.rows[i][COL_TYPE], r[COL_TYPE])
                                      /\ OtherId(df.rows[i], proc_id)}
                   ELSE {}
    IN  IF ~({COL_STATUS, COL_NAME} \subseteq df.columns) THEN {}
        ELSE IF by_law # {} THEN by_law ELSE by_kind

(***************************************************************************)
(* Detail runs: one call of show_procedure_detail or                       *)
(* _render_procedure_detail, then clicks on the buttons it rendered.       *)
(***************************************************************************)
MaxDetailRows == 2    \* most rows of the table a procedure is looked up in

ID_P1 == <<"P", "1">>
ID_P2 == <<"P", "2">>
ID_P9 == <<"P", "9">>

DtColumns == Range(COLUMNS) \cup {COL_RATE}
DtBaseRow ==
    [c \in DtColumns |->
        CASE c = COL_ID -> Val(ID_P1)
          [] c \in Range(numeric_columns) -> Val(5)
          [] c = COL_RATE -> Val(0)
          [] OTHER -> Val(LABEL_X)]
\* Rows that differ in the id and in one text field (a value, blank, null).
DtRowPool ==
    {[DtBaseRow EXCEPT ![COL_ID] = id, ![COL_FAX] = fax] :
        id \in {Val(ID_P1), Val(ID_P2), NaN},
        fax \in {Val(LABEL_X), Val(<<" ">>), NaN}}
DtTable(rows, columns) ==
    [columns |-> columns,
     index |-> [i \in 1..Len(rows) |-> i - 1],
     rows |-> [i \in 1..Len(rows) |-> [c \in columns |-> rows[i][c]]],
     dtypes |-> [c \in columns |-> ObjectDtype]]
\* The whole schema, or a table that lacks one declared column.
DtSchemas == {DtColumns, DtColumns \ {COL_FAX}, DtColumns \ {COL_LAW}}

NoSession == [show_detail |-> FALSE, selected_procedure_id |-> PyNone,
              search_query |-> PyNone, search_results |-> PyNone]

DtInit ==
    /\ dt_out = <<>>
    /\ dt_df \in {DtTable(rows, cols) :
                    rows \in SeqsUpTo(DtRowPool, MaxDetailRows), cols \in DtSchemas}
    /\ dt_id \in {ID_P1, ID_P2, ID_P9}
    /\ dt_fn \in {"show_procedure_detail", "_render_procedure_detail"}
    /\ dt_session \in {NoSession,
                       [NoSession EXCEPT !.show_detail = TRUE, !.selected_procedure_id = dt_id]}

\* The call of show_procedure_detail(id, df) or _render_procedure_detail(id, df).
ShowDetail ==
    /\ dt_out = <<>>
    /\ dt_out' = <<IF dt_fn = "show_procedure_detail"
                   THEN show_procedure_detail(dt_id, dt_df)
                   ELSE _render_procedure_detail(dt_id, dt_df)>>
    /\ UNCHANGED <<dt_df, dt_id, dt_fn, dt_session>>

\* "詳細を見る" on a related procedure: its id becomes the selected one.
ClickRelated ==
    /\ Len(dt_out) = 1 /\ dt_out[1].error = <<>>
    /\ \E i \in Related(dt_id, dt_df) :
          dt_session' = [dt_session EXCEPT
                            !.selected_procedure_id =
                                IF dt_df.rows[i][COL_ID].isna THEN <<"n", "a", "n">>
                                ELSE dt_df.rows[i][COL_ID].v,
                            !.show_detail = TRUE]
    /\ UNCHANGED <<dt_df, dt_id, dt_fn, dt_out>>

\* "同法令で一覧表示": the rows of the same 法令名 become the search results.
ClickSameLaw ==
    /\ Len(dt_out) = 1 /\ dt_out[1].error = <<>>
    /\ LET r == dt_df.rows[FindById(dt_df, dt_id)[1]]
       IN  /\ HasValue(r, COL_LAW)
           /\ dt_session' = [dt_session EXCEPT
                                !.search_query = r[COL_LAW].v,
                                !.search_results =
                                    SelectSeq(dt_df.index,
                                        LAMBDA l : CellEq(dt_df.rows[l + 1][COL_LAW], r[COL_LAW])),
                                !.show_detail = FALSE]
    /\ UNCHANGED <<dt_df, dt_id, dt_fn, dt_out>>

DtNext ==
    \/ ShowDetail /\ UNCHANGED <<nl_vars, sv_vars, ag_vars, fd_vars, ld_vars, view_vars>>
    \/ ClickRelated /\ UNCHANGED <<nl_vars, sv_vars, ag_vars, fd_vars, ld_vars, view_vars>>
    \/ ClickSameLaw /\ UNCHANGED <<nl_vars, sv_vars, ag_vars, fd_vars, ld_vars, view_vars>>

DtSpecInit == DtInit /\ NlIdle /\ SvIdle /\ AgIdle /\ FdIdle /\ LdIdle /\ ViewIdle
DtSpec == DtSpecInit /\ [][DtNext]_vars

(***************************************************************************)
(* load_data.  Of the columns of the files the model keeps the three count *)
(* columns and one categorical column; the other columns are text that     *)
(* load_data passes on as read.  A count text is made of digits, a sign    *)
(* and the decimal point (no exponent, no "inf").                          *)
(***************************************************************************)
NoFile == [exists |-> FALSE]
File(content) == [exists |-> TRUE, content |-> content]

LdColumns == {COL_STATUS, COL_TOTAL, COL_ONLINE, COL_OFFLINE}

\* na_values of read_csv: the defaults of pandas and ['', 'NaN', 'nan'].
na_values ==
    {<<>>, <<"N", "a", "N">>, <<"n", "a", "n">>, <<"N", "A">>, <<"N", "/", "A">>,
     <<"n", "/", "a">>, <<"N", "U", "L", "L">>, <<"n", "u", "l", "l">>,
     <<"N", "o", "n", "e">>, <<"-", "n", "a", "n">>, <<"-", "N", "a", "N">>,
     <<"#", "N", "/", "A">>, <<"#", "N", "A">>, <<"<", "N", "A", ">">>,
     <<"#", "N", "/", "A", " ", "N", "/", "A">>, <<"-", "1", ".", "#", "I", "N", "D">>,
     <<"-", "1", ".", "#", "Q", "N", "A", "N">>, <<"1", ".", "#", "I", "N", "D">>,
     <<"1", ".", "#", "Q", "N", "A", "N">>}

\* pd.read_csv(..., names=COLUMNS, dtype=str, na_values=...): every cell is a
\* text or null, one row of the table per data row of the file.
read_csv(rows) ==
    [columns |-> LdColumns,
     index |-> [i \in 1..Len(rows) |-> i - 1],
     rows |-> [i \in 1..Len(rows) |->
                 [c \in LdColumns |-> IF rows[i][c] \in na_values THEN NaN ELSE Val(rows[i][c])]],
     dtypes |-> [c \in LdColumns |-> ObjectDtype]]

RECURSIVE DigitsToNat(_)
DigitsToNat(ds) ==
    IF ds = <<>> THEN 0
    ELSE 10 * DigitsToNat(SubSeq(ds, 1, Len(ds) - 1))
         + (CHOOSE d \in 0..9 : DigitChars[d + 1] = ds[Len(ds)])

\* pd.to_numeric(text, errors='coerce') of one text: whether it is a number,
\* whether it is written as an integer, and its value truncated toward zero
\* (what astype('int32') keeps of it).
to_numeric(t) ==
    LET signed == t # <<>> /\ t[1] \in {"-", "+"}
        s == IF signed THEN Tail(t) ELSE t
        a == SkipDigits(s, 1) - 1
        b == IF a < Len(s) /\ s[a + 1] = "." THEN SkipDigits(s, a + 2) - 1 ELSE a
        whole == DigitsToNat(SubSeq(s, 1, a))
    IN  [ok |-> b = Len(s) /\ (a >= 1 \/ b >= a + 2),
         integer |-> a = Len(s),
         trunc |-> IF signed /\ t[1] = "-" THEN 0 - whole ELSE whole]

\* pd.to_numeric(..., errors='coerce').fillna(0).astype('int32') of one cell:
\* 0 for a null or a text that is not a number, the number truncated toward
\* zero otherwise (the count texts of the model are short, int32 holds them).
AsInt32(cell) ==
    IF cell.isna \/ ~to_numeric(cell.v).ok THEN 0 ELSE to_numeric(cell.v).trunc

\* np.where(total > 0, (online / total * 100).round(2), 0) for one row, in
\* hundredths of a percent.  The quotient is a float64, so a value halfway
\* between two hundredths can round to either of them.
Rate(total, online) ==
    IF total.isna \/ total.v <= 0 THEN {Val(0)}
    ELSE IF online.isna THEN {NaN}
    ELSE LET n == online.v * 10000
             fl == n \div total.v
             r == n % total.v
         IN  IF 2 * r < total.v THEN {Val(fl)}
             ELSE IF 2 * r > total.v THEN {Val(fl + 1)}
             ELSE {Val(fl), Val(fl + 1)}

\* df['オンライン化率'] = ...astype('float32'): the tables with the rate column.
WithRate(df) ==
    LET outcome == [i \in 1..Len(df.rows) |-> Rate(df.rows[i][COL_TOTAL], df.rows[i][COL_ONLINE])]
        rates == {col \in [1..Len(df.rows) -> UNION {outcome[i] : i \in 1..Len(df.rows)}] :
                     \A i \in 1..Len(df.rows) : col[i] \in outcome[i]}
    IN  {[columns |-> df.columns \cup {COL_RATE},
          index |-> df.index,
          rows |-> [i \in 1..Len(df.rows) |->
                      [c \in df.columns \cup {COL_RATE} |->
                          IF c = COL_RATE THEN col[i] ELSE df.rows[i][c]]],
          dtypes |-> [c \in df.columns \cup {COL_RATE} |->
                          IF c = COL_RATE THEN [dtype |-> "float32", categories |-> {}]
                          ELSE df.dtypes[c]]] : col \in rates}

categorical_cols ==
    {COL_MINISTRY, COL_TYPE, COL_ACTOR, COL_RECEIVER, COL_STATUS, COL_OFFICE, COL_COMMON}

\* df[col] = df[col].astype('category') for the categorical columns that are
\* in the table and are not categorical yet.
AsCategory(df) ==
    [df EXCEPT !.dtypes =
        [c \in df.columns |->
            IF c \in categorical_cols /\ df.dtypes[c].dtype # "category"
            THEN CategoryDtype({df.rows[i][c].v : i \in {j \in 1..Len(df.rows) : ~df.rows[j][c].isna}})
            ELSE df.dtypes[c]]]

\* The CSV conversion of load_data: the tables written to the Parquet file.
ConvertCsv(rows) ==
    LET df == AsCategory(read_csv(rows))
        counted ==
            [df EXCEPT
                !.rows = [i \in 1..Len(df.rows) |->
                            [c \in df.columns |->
                                IF c \in Range(numeric_columns)
                                THEN Val(AsInt32(df.rows[i][c]))
                                ELSE df.rows[i][c]]],
                !.dtypes = [c \in df.columns |->
                              IF c \in Range(numeric_columns)
                              THEN [dtype |-> "int32", categories |-> {}]
                              ELSE df.dtypes[c]]]
    IN  WithRate(counted)

\* The part of load_data after the file is read.
AfterRead(df) ==
    LET cat == AsCategory(df)
    IN  IF COL_RATE \notin cat.columns /\ {COL_TOTAL, COL_ONLINE} \subseteq cat.columns
        THEN WithRate(cat)
        ELSE {cat}

\* load_data(): the outcomes of one call, each the table returned (or the
\* exception raised), whether the CSV file was converted (the call then says
\* so with st.info) and the Parquet file left behind.
load_data(csv, parquet) ==
    IF ~parquet.exists /\ csv.exists
    THEN UNION {{[raised |-> "", converted |-> TRUE, df |-> df, parquet |-> File(written)] :
                    df \in AfterRead(written)} : written \in ConvertCsv(csv.content)}
    ELSE IF ~parquet.exists
    THEN {[raised |-> "FileNotFoundError", converted |-> FALSE, df |-> <<>>, parquet |-> parquet]}
    ELSE {[raised |-> "", converted |-> FALSE, df |-> df, parquet |-> parquet] :
             df \in AfterRead(parquet.content)}

(***************************************************************************)
(* Load runs: load_data on a CSV file, on a Parquet file, or on neither,   *)
(* and a second load in a later session.                                   *)
(***************************************************************************)
MaxNumLen == 3      \* longest count text of the first row of the CSV file
MaxCsvRows == 2     \* most data rows of the CSV file

NumAlphabet == {"0", "1", "-", "x"}
NumExamples ==
    {<<"1", ".", "5">>, <<"-", "1", ".", "5">>, <<".", "5">>, <<"n", "a", "n">>}
NumTexts == SeqsUpTo(NumAlphabet, MaxNumLen) \cup NumExamples

CsvRow(total, online) ==
    [c \in LdColumns |->
        CASE c = COL_TOTAL -> total
          [] c = COL_ONLINE -> online
          [] c = COL_OFFLINE -> <<"0">>
          [] OTHER -> LABEL_X]
\* The first row has any count text; the rows after it are a few fixed ones.
CsvFirstRows == {CsvRow(t, o) : t \in NumTexts, o \in {<<"0">>, <<"1">>, <<"7">>, <<"x">>}}
CsvLaterRows ==
    {CsvRow(<<"3">>, <<"1">>), CsvRow(<<"x">>, <<"1">>), CsvRow(<<"-", "3">>, <<"x">>)}
CsvFiles ==
    {<<>>} \cup {<<first>> \o rest :
                    first \in CsvFirstRows, rest \in SeqsUpTo(CsvLaterRows, MaxCsvRows - 1)}

\* Parquet files written by another tool: integer counts, with or without
\* the rate column and the online count.
ParquetRow(total, online) ==
    [c \in LdColumns \cup {COL_RATE} |->
        CASE c = COL_TOTAL -> Val(total)
          [] c = COL_ONLINE -> Val(online)
          [] c = COL_OFFLINE -> Val(0)
          [] c = COL_RATE -> Val(4242)
          [] OTHER -> Val(LABEL_X)]
ParquetTables ==
    {[columns |-> cols,
      index |-> [i \in 1..Len(rows) |-> i - 1],
      rows |-> [i \in 1..Len(rows) |-> [c \in cols |-> rows[i][c]]],
      dtypes |-> [c \in cols |->
                     IF c \in Range(numeric_columns) THEN [dtype |-> "int32", categories |-> {}]
                     ELSE IF c = COL_RATE THEN [dtype |-> "float32", categories |-> {}]
                     ELSE ObjectDtype]] :
        rows \in SeqsUpTo({ParquetRow(t, o) : t \in {0, 3, 32}, o \in {0, 1, 7}}, MaxCsvRows),
        cols \in {LdColumns, LdColumns \cup {COL_RATE}, LdColumns \ {COL_ONLINE}}}

LdInit ==
    /\ ld_out = <<>>
    /\ \/ ld_parquet = NoFile /\ ld_csv \in {File(rows) : rows \in CsvFiles}
       \/ ld_parquet = NoFile /\ ld_csv = NoFile
       \/ ld_parquet \in {File(t) : t \in ParquetTables}
          /\ ld_csv \in {NoFile, File(<<CsvRow(<<"1">>, <<"1">>)>>)}

\* st.session_state.df = load_data(), in this session and in a later one.
LoadData ==
    /\ Len(ld_out) < 2
    /\ \E o \in load_data(ld_csv, ld_parquet) :
          /\ ld_out' = Append(ld_out, [raised |-> o.raised, converted |-> o.converted, df |-> o.df])
          /\ ld_parquet' = o.parquet
    /\ UNCHANGED ld_csv

LdNext == LoadData /\ UNCHANGED <<nl_vars, sv_vars, ag_vars, fd_vars, dt_vars, view_vars>>
LdSpecInit == LdInit /\ NlIdle /\ SvIdle /\ AgIdle /\ FdIdle /\ DtIdle /\ ViewIdle
LdSpec == LdSpecInit /\ [][LdNext]_vars

(***************************************************************************)
(* main(): the runs of one browser session.  Streamlit runs main() once    *)
(* for every user event, with st.session_state and the widget values kept  *)
(* from run to run; st.rerun() ends the current run and starts another.    *)
(* The table keeps six text columns; of the sidebar filters the model      *)
(* keeps the 府省庁 selection.                                             *)
(***************************************************************************)
MaxMainRows == 2      \* most rows of the table on disk
MaxFailedLoads == 1   \* most calls of load_data that raise

LAW_L == <<"L">>
LAW_M == <<"M">>

MnColumns == {COL_ID, COL_NAME, COL_LAW, COL_MINISTRY, COL_STATUS, COL_TYPE}
\* Row i has the id "P<i>"; the rows differ in 法令名 and 所管府省庁.
MnRow(i, law, ministry) ==
    [c \in MnColumns |->
        CASE c = COL_ID -> Val(<<"P">> \o NatToText(i))
          [] c = COL_LAW -> law
          [] c = COL_MINISTRY -> Val(ministry)
          [] OTHER -> Val(<<"a">>)]
\* The 法令名 and 所管府省庁 a row may hold.
MnKinds == {<<Val(LAW_L), LABEL_X>>, <<Val(LAW_L), LABEL_Y>>, <<Val(LAW_M), LABEL_X>>, <<NaN, LABEL_Y>>}
MnTablesOf(n) ==
    {[columns |-> MnColumns,
      index |-> [i \in 1..n |-> i - 1],
      rows |-> [i \in 1..n |-> MnRow(i, kinds[i][1], kinds[i][2])],
      dtypes |-> [c \in MnColumns |-> ObjectDtype]] :
        kinds \in [1..n -> MnKinds]}
MnTables == UNION {MnTablesOf(n) : n \in 0..MaxMainRows}
\* What the user types into the search box.
MnQueries == {<<>>, <<"a">>, LAW_L}

\* st.session_state: the entries present, by key.
SessionHas(session, k) == k \in DOMAIN session
SessionGet(session, k, default) == IF k \in DOMAIN session THEN session[k] ELSE default
SessionSet(session, k, v) ==
    [x \in DOMAIN session \cup {k} |-> IF x = k THEN v ELSE session[x]]
SessionDel(session, k) == [x \in DOMAIN session \ {k} |-> session[x]]

\* The session before the first run of main().
FreshSession == [k \in {"data_loaded", "df"} |-> IF k = "data_loaded" THEN FALSE ELSE PyNone]

\* Mutant of LoadOnce: the table is loaded in every run.
LoadOnce_EveryRun(session, loaded) ==
    [called |-> TRUE,
     session |-> [session EXCEPT !["df"] = loaded, !["data_loaded"] = TRUE]]

\* "if not st.session_state.data_loaded": load_data is called, and its table
\* stored, while data_loaded is false.
LoadOnce(session, loaded) ==
    IF ~session["data_loaded"]
    THEN [called |-> TRUE,
          session |-> [session EXCEPT !["df"] = loaded, !["data_loaded"] = TRUE]]
    ELSE [called |-> FALSE, session |-> session]

\* df[mask]: the rows at the given positions, with their index labels.
Rows(df, keep) ==
    [columns |-> df.columns,
     index |-> [k \in 1..Len(keep) |-> df.index[keep[k]]],
     rows |-> [k \in 1..Len(keep) |-> df.rows[keep[k]]],
     dtypes |-> df.dtypes]

\* str.contains(pat, regex=False, case=False)
Contains(s, pat) == \E i \in 1..(Len(s) + 1) : MatchesAt(Lower(s), i, Lower(pat))
\* astype(str) of a text cell: a null becomes the text "nan".
AsStr(cell) == IF cell.isna THEN <<"n", "a", "n">> ELSE cell.v
\* The positions of the rows in which some column contains the query.
SearchMask(df, search_query) ==
    SelectSeq([i \in 1..Len(df.rows) |-> i],
              LAMBDA i : \E c \in df.columns : Contains(AsStr(df.rows[i][c]), search_query))

\* Mutant of search_box: an empty box removes only the results.
search_box_KeepsQuery(session, df, search_query) ==
    IF search_query # <<>>
    THEN SessionSet(SessionSet(session, "search_results", Rows(df, SearchMask(df, search_query))),
                    "search_query", search_query)
    ELSE SessionDel(session, "search_results")

\* The search box: a query stores its results and itself in the session, an
\* empty box removes both entries.
search_box(session, df, search_query) ==
    IF search_query # <<>>
    THEN SessionSet(SessionSet(session, "search_results", Rows(df, SearchMask(df, search_query))),
                    "search_query", search_query)
    ELSE SessionDel(SessionDel(session, "search_results"), "search_query")

\* The filter widgets before any selection.
NoFilter == [ministry_filter |-> {}]
\* The call of filter_dataframe in main().
MainFilter(df, filter) ==
    filter_dataframe(df, [FdNoArgs EXCEPT !["ministries"] = filter.ministry_filter]).df

\* 'search_results' in st.session_state and st.session_state.get('search_query')
SearchActive(session) ==
    /\ SessionHas(session, "search_results")
    /\ SessionGet(session, "search_query", <<>>) # <<>>

\* Mutant of display_df: the search results are shown whenever a search is active.
display_df_SearchOnly(session, df, filtered_df) ==
    session["search_results"]

\* display_df: the rows of the search results that the filter keeps when the
\* filter removed a row of df, the search results otherwise.
display_df(session, df, filtered_df) ==
    LET search_df == session["search_results"]
    IN  IF Len(filtered_df.rows) < Len(df.rows)
        THEN Rows(df, SelectSeq([i \in 1..Len(df.rows) |-> i],
                                LAMBDA i : /\ df.index[i] \in Range(search_df.index)
                                           /\ df.index[i] \in Range(filtered_df.index)))
        ELSE search_df

\* Mutant of DetailOpen: a selected procedure is enough.
DetailOpen_BySelection(session) ==
    SessionGet(session, "selected_procedure_id", PyNone) # PyNone

\* st.session_state.get('show_detail', False) and st.session_state.get('selected_procedure_id')
DetailOpen(session) ==
    /\ SessionGet(session, "show_detail", FALSE)
    /\ SessionGet(session, "selected_procedure_id", PyNone) # PyNone

\* The buttons of the detail view: "詳細を見る" for each related procedure, and
\* the quick actions whose field is not null.
RelatedIds(proc_id, df) ==
    IF FindById(df, proc_id) = <<>> THEN {}
    ELSE {AsStr(df.rows[i][COL_ID]) : i \in Related(proc_id, df)}
QuickActions(proc_id, df) ==
    IF FindById(df, proc_id) = <<>> THEN {}
    ELSE LET r == df.rows[FindById(df, proc_id)[1]]
         IN  (IF HasValue(r, COL_LAW) THEN {"same_law"} ELSE {})
             \cup (IF HasValue(r, COL_MINISTRY) THEN {"same_ministry"} ELSE {})
             \cup (IF HasValue(r, COL_TYPE) THEN {"same_type"} ELSE {})

NothingShown == [view |-> "none", rows |-> <<>>, detail |-> <<>>, buttons |-> {}, related |-> {}]
ExceptionShown == [NothingShown EXCEPT !.view = "exception"]

\* Mutant of main_view: the search result lists its rows with a "詳細を見る"
\* button each.
main_view_ListsDetails(session, df, filter) ==
    LET filtered_df == MainFilter(df, filter)
        proc_id == session["selected_procedure_id"]
    IN  IF ~SearchActive(session)
        THEN [NothingShown EXCEPT !.view = "dashboard", !.rows = filtered_df.index]
        ELSE IF ~DetailOpen(session)
        THEN [NothingShown EXCEPT !.view = "search",
                                  !.rows = display_df(session, df, filtered_df).index,
                                  !.buttons = {"clear"},
                                  !.related = {AsStr(df.rows[i][COL_ID]) : i \in 1..Len(df.rows)}]
        ELSE [view |-> "detail",
              rows |-> display_df(session, df, filtered_df).index,
              detail |-> <<proc_id>>,
              buttons |-> {"clear", "back"} \cup QuickActions(proc_id, df),
              related |-> RelatedIds(proc_id, df)]

\* What main() renders below the sidebar: the detail view of the selected
\* procedure, or the dashboard over the displayed rows.
main_view(session, df, filter) ==
    LET filtered_df == MainFilter(df, filter)
        proc_id == session["selected_procedure_id"]
    IN  IF ~SearchActive(session)
        THEN [NothingShown EXCEPT !.view = "dashboard", !.rows = filtered_df.index]
        ELSE IF ~DetailOpen(session)
        THEN [NothingShown EXCEPT !.view = "search",
                                  !.rows = display_df(session, df, filtered_df).index,
                                  !.buttons = {"clear"}]
        ELSE [view |-> "detail",
              rows |-> display_df(session, df, filtered_df).index,
              detail |-> <<proc_id>>,
              buttons |-> {"clear", "back"} \cup QuickActions(proc_id, df),
              related |-> RelatedIds(proc_id, df)]

\* One run of main() in which no button is pressed.
main(session, box, filter, loaded) ==
    LET s1 == LoadOnce(session, loaded).session
        s2 == search_box(s1, s1["df"], box)
    IN  [session |-> s2, shown |-> main_view(s2, s2["df"], filter),
         called |-> LoadOnce(session, loaded).called]

\* The selections the filter widgets offer: values of the loaded table.
FilterChoices(df) ==
    {[ministry_filter |-> m] :
        m \in SUBSET {df.rows[i][COL_MINISTRY].v : i \in 1..Len(df.rows)}}

WidgetsShown == mn_shown.view \in {"dashboard", "search", "detail"}

\* A session that begins: nothing is loaded and nothing was rendered.
MnFreshInit ==
    /\ mn_disk \in MnTables
    /\ mn_session = FreshSession
    /\ mn_box = <<>>
    /\ mn_filter = NoFilter
    /\ mn_shown = NothingShown
    /\ mn_pending = ""
    /\ mn_event = ""
    /\ mn_loads = 0
    /\ mn_origin = "fresh"

\* A session in which the detail view is open.  No run from a fresh session
\* reaches one; these sessions are where the handlers of the view execute.
MnDetailInit ==
    /\ mn_disk \in MnTables
    /\ mn_box \in MnQueries \ {<<>>}
    /\ mn_filter \in FilterChoices(mn_disk)
    /\ \E i \in 1..Len(mn_disk.rows) :
          LET s0 == [k \in {"data_loaded", "df", "show_detail", "selected_procedure_id"} |->
                        CASE k = "data_loaded" -> TRUE
                          [] k = "df" -> mn_disk
                          [] k = "show_detail" -> TRUE
                          [] OTHER -> AsStr(mn_disk.rows[i][COL_ID])]
              run == main(s0, mn_box, mn_filter, mn_disk)
          IN  /\ mn_session = run.session
              /\ mn_shown = run.shown
    /\ mn_pending = ""
    /\ mn_event = ""
    /\ mn_loads = 1
    /\ mn_origin = "detail"

MnInit == MnFreshInit \/ MnDetailInit

\* A run of main() with the widgets at box and filter.  A call of load_data
\* raises when the data files are missing, and then the run ends with the
\* session as it was.
Run(event, box, filter) ==
    /\ mn_pending' = ""
    /\ mn_event' = event
    /\ UNCHANGED <<mn_disk, mn_origin>>
    /\ \/ LET run == main(mn_session, box, filter, mn_disk)
          IN  /\ mn_session' = run.session
              /\ mn_shown' = run.shown
              /\ mn_box' = box /\ mn_filter' = filter
              /\ mn_loads' = mn_loads + (IF run.called THEN 1 ELSE 0)
       \/ /\ LoadOnce(mn_session, mn_disk).called
          /\ mn_loads < MaxFailedLoads
          /\ mn_loads' = mn_loads + 1
          /\ mn_shown' = ExceptionShown
          /\ UNCHANGED <<mn_session, mn_box, mn_filter>>

\* The page is opened, or reloaded after an exception.
OpenPage ==
    /\ mn_pending = "" /\ ~WidgetsShown
    /\ Run("open", mn_box, mn_filter)

\* The user edits the search box.
TypeQuery ==
    /\ mn_pending = "" /\ WidgetsShown
    /\ \E q \in MnQueries \ {mn_box} : Run("type", q, mn_filter)

\* The user changes a filter selection.
ChangeFilter ==
    /\ mn_pending = "" /\ WidgetsShown
    /\ \E f \in FilterChoices(mn_session["df"]) \ {mn_filter} : Run("filter", mn_box, f)

\* The run that st.rerun() starts.
Rerun ==
    /\ mn_pending # ""
    /\ Run("rerun", mn_box, mn_filter)

\* A click: main() runs as far as the button, whose handler changes the
\* session and calls st.rerun().
Click(button, handled) ==
    /\ mn_pending = "" /\ button \in mn_shown.buttons
    /\ SearchActive(search_box(mn_session, mn_session["df"], mn_box))
    /\ mn_session' = handled
    /\ mn_pending' = button
    /\ mn_event' = button
    /\ UNCHANGED <<mn_disk, mn_box, mn_filter, mn_shown, mn_loads, mn_origin>>

\* "検索をクリア"
ClickClear ==
    LET s == search_box(mn_session, mn_session["df"], mn_box)
    IN  Click("clear", SessionDel(SessionDel(s, "search_results"), "search_query"))

\* "← 検索結果に戻る"
ClickBack ==
    LET s == search_box(mn_session, mn_session["df"], mn_box)
    IN  /\ DetailOpen(s)
        /\ Click("back", SessionSet(SessionSet(s, "show_detail", FALSE),
                                    "selected_procedure_id", PyNone))

\* "同法令で一覧表示": the rows whose 法令名 is the record's.
same_law(session, df) ==
    LET r == df.rows[FindById(df, session["selected_procedure_id"])[1]]
        law_name == AsStr(r[COL_LAW])
        mask == SelectSeq([i \in 1..Len(df.rows) |-> i],
                          LAMBDA i : AsStr(df.rows[i][COL_LAW]) = law_name)
    IN  SessionSet(SessionSet(SessionSet(session, "search_query", law_name),
                              "search_results", Rows(df, mask)),
                   "show_detail", FALSE)
QuickSameLaw ==
    LET s == search_box(mn_session, mn_session["df"], mn_box)
    IN  /\ DetailOpen(s)
        /\ Click("same_law", same_law(s, s["df"]))

\* "この府省で一覧表示" and "この類型で一覧表示": the handler begins by assigning
\* st.session_state['ministry_filter'] (or 'type_filter'), the key of a widget
\* the sidebar has already created in this run, which Streamlit refuses with
\* an exception; the enclosing "except Exception: pass" swallows it, so the
\* session is left alone, no rerun is asked for and the run goes on.
QuickSameFilter ==
    /\ mn_pending = ""
    /\ \E button \in {"same_ministry", "same_type"} \cap mn_shown.buttons :
          Run(button, mn_box, mn_filter)

\* "詳細を見る" on a related procedure.
RelatedDetail ==
    LET s == search_box(mn_session, mn_session["df"], mn_box)
    IN  /\ mn_pending = ""
        /\ SearchActive(s)
        /\ \E rid \in mn_shown.related :
              mn_session' = SessionSet(SessionSet(s, "selected_procedure_id", rid),
                                       "show_detail", TRUE)
        /\ mn_pending' = "related"
        /\ mn_event' = "related"
        /\ UNCHANGED <<mn_disk, mn_box, mn_filter, mn_shown, mn_loads, mn_origin>>

MnNext ==
    \/ OpenPage /\ UNCHANGED <<core_vars, tn_vars, pg_vars, in_vars>>
    \/ TypeQuery /\ UNCHANGED <<core_vars, tn_vars, pg_vars, in_vars>>
    \/ ChangeFilter /\ UNCHANGED <<core_vars, tn_vars, pg_vars, in_vars>>
    \/ Rerun /\ UNCHANGED <<core_vars, tn_vars, pg_vars, in_vars>>
    \/ ClickClear /\ UNCHANGED <<core_vars, tn_vars, pg_vars, in_vars>>
    \/ ClickBack /\ UNCHANGED <<core_vars, tn_vars, pg_vars, in_vars>>
    \/ QuickSameLaw /\ UNCHANGED <<core_vars, tn_vars, pg_vars, in_vars>>
    \/ QuickSameFilter /\ UNCHANGED <<core_vars, tn_vars, pg_vars, in_vars>>
    \/ RelatedDetail /\ UNCHANGED <<core_vars, tn_vars, pg_vars, in_vars>>

CoreIdle == NlIdle /\ SvIdle /\ AgIdle /\ FdIdle /\ DtIdle /\ LdIdle
MnSpecInit == MnInit /\ CoreIdle /\ TnIdle /\ PgIdle /\ InIdle
MnSpec == MnSpecInit /\ [][MnNext]_vars

(***************************************************************************)
(* topn_with_other(series, top, other_label).  The function is not in the  *)
(* source file; it is modelled after the specification's section 4.3: the  *)
(* unordered frequency table of the series (null cells dropped, counts     *)
(* descending, equal counts in order of first occurrence), its `top` first *)
(* labels kept, the rest replaced by one bucket.                           *)
(***************************************************************************)
MaxSeriesLen == 4   \* most cells of the series
MaxTop == 3         \* largest top

OTHER_LABEL == <<"O", "t", "h", "e", "r">>
LABEL_Z == <<"z">>

\* Mutant of topn_with_other: the labels beyond top are dropped.
topn_with_other_NoBucket(series, top, other_label) ==
    LET vc == value_counts(DropNa(series))
    IN  IF Len(vc) <= top THEN vc ELSE SubSeq(vc, 1, top)

topn_with_other(series, top, other_label) ==
    LET vc == value_counts(DropNa(series))
    IN  IF Len(vc) <= top THEN vc
        ELSE Append(SubSeq(vc, 1, top),
                    [label |-> other_label, count |-> Total(SubSeq(vc, top + 1, Len(vc)))])

TnInit ==
    /\ tn_series \in {[values |-> cells, dt |-> ObjectDtype] :
                        cells \in SeqsUpTo({Val(LABEL_X), Val(LABEL_Y), Val(LABEL_Z), NaN},
                                           MaxSeriesLen)}
    /\ tn_top \in 0..MaxTop
    /\ tn_out = <<>>

\* The call topn_with_other(series, top, "Other").
TopN ==
    /\ tn_out = <<>>
    /\ tn_out' = <<topn_with_other(tn_series, tn_top, OTHER_LABEL)>>
    /\ UNCHANGED <<tn_series, tn_top>>

TnNext == TopN /\ UNCHANGED <<core_vars, mn_vars, pg_vars, in_vars>>

TnSpecInit == TnInit /\ CoreIdle /\ MnIdle /\ PgIdle /\ InIdle
TnSpec == TnSpecInit /\ [][TnNext]_vars

(***************************************************************************)
(* Normalization of the labels of OPTION_ORDERS: _normalize_label applied  *)
(* to an entry of the list of its own key, as it is to a data value that   *)
(* is spelled like the entry.                                              *)
(***************************************************************************)
OoInit ==
    /\ nl_key \in OPTION_ORDERS_KEYS
    /\ nl_val \in Range(OPTION_ORDERS(nl_key))
    /\ nl_out = <<>>

OoSpecInit == OoInit /\ SvIdle /\ AgIdle /\ FdIdle /\ DtIdle /\ LdIdle /\ ViewIdle
OoSpec == OoSpecInit /\ [][NlNext]_vars

(***************************************************************************)
(* The implementation-status progress indicator of main().                 *)
(***************************************************************************)
MaxProgressRows == 3   \* most rows of the filtered table

STATUS_DONE == ORDER_STATUS[1]      \* 実施済
STATUS_PARTIAL == ORDER_STATUS[2]   \* 一部実施済
STATUS_NOT_DONE == ORDER_STATUS[3]  \* 未実施
ICHIBU == <<"U+4E00", "U+90E8">>    \* 一部

\* "pat in s", and str.contains(pat) for a pattern without metacharacters.
HasSubstring(s, pat) == \E i \in 1..(Len(s) + 1) : MatchesAt(s, i, pat)

\* len(filtered_df[filtered_df[column].str.contains(pat, na=False)]), or 0
\* when the table has no such column.
CountContaining(filtered_df, column, pat) ==
    IF column \notin filtered_df.columns THEN 0
    ELSE Cardinality({i \in 1..Len(filtered_df.rows) :
                        /\ ~filtered_df.rows[i][column].isna
                        /\ HasSubstring(filtered_df.rows[i][column].v, pat)})

\* progress_value = (online_procs + partial_procs * 0.5) / n_total, or 0 for
\* an empty table; the value is kept as the fraction twice / (2 * n_total).
progress_value(filtered_df) ==
    LET n_total == Len(filtered_df.rows)
        online_procs == CountContaining(filtered_df, COL_STATUS, STATUS_DONE)
        partial_procs == CountContaining(filtered_df, COL_STATUS, ICHIBU)
    IN  [online_procs |-> online_procs, partial_procs |-> partial_procs, n_total |-> n_total,
         twice |-> IF n_total > 0 THEN 2 * online_procs + partial_procs ELSE 0]

PgStatuses == {Val(STATUS_DONE), Val(STATUS_PARTIAL), Val(STATUS_NOT_DONE), NaN}
PgTable(columns, cells) ==
    [columns |-> columns,
     index |-> [i \in 1..Len(cells) |-> i - 1],
     rows |-> [i \in 1..Len(cells) |-> [c \in columns |-> IF c = COL_STATUS THEN cells[i] ELSE Val(LABEL_X)]],
     dtypes |-> [c \in columns |-> ObjectDtype]]

PgInit ==
    /\ pg_df \in {PgTable(columns, cells) :
                    columns \in {{COL_NAME, COL_STATUS}, {COL_NAME}},
                    cells \in SeqsUpTo(PgStatuses, MaxProgressRows)}
    /\ pg_out = <<>>

\* The indicator is rendered for the filtered table.
Progress ==
    /\ pg_out = <<>>
    /\ pg_out' = <<progress_value(pg_df)>>
    /\ UNCHANGED pg_df

PgNext == Progress /\ UNCHANGED <<core_vars, mn_vars, tn_vars, in_vars>>

PgSpecInit == PgInit /\ CoreIdle /\ MnIdle /\ TnIdle /\ InIdle
PgSpec == PgSpecInit /\ [][PgNext]_vars

(***************************************************************************)
(* The insight block and the basic information of the detail view: the     *)
(* digital maturity score and the style of the online status, both         *)
(* computed from the record r of the procedure.                            *)
(***************************************************************************)
COL_DOC_REMOVAL == "tempu_teppai_shoryaku"   \* 添付書類等提出の撤廃/省略状況
COL_FEE_METHOD == "tesuryo_no_nofu_hoho"     \* 手数料等の納付方法 (not one of COLUMNS)
COL_SYSTEM_APPLY == "system_shinsei"         \* 情報システム(申請)
COL_SYSTEM_OFFICE == "system_jimu_shori"     \* 情報システム(事務処理)

TEPPAI == <<"U+64A4", "U+5EC3">>                                   \* 撤廃
ZENPAI == <<"U+5168", "U+5EC3">>                                   \* 全廃
SHORYAKU == <<"U+7701", "U+7565">>                                 \* 省略
ONLINE == <<"U+30AA", "U+30F3", "U+30E9", "U+30A4", "U+30F3">>     \* オンライン
PAY_EASY == <<"U+30DA", "U+30A4", "U+30B8", "U+30FC">>             \* ペイジー
CREDIT == <<"U+30AF", "U+30EC", "U+30B8", "U+30C3", "U+30C8">>     \* クレジット
REVENUE_STAMP == <<"U+53CE", "U+5165", "U+5370", "U+7D19">>        \* 収入印紙
CASH == <<"U+73FE", "U+91D1">>                                     \* 現金
STATUS_EXEMPT == ORDER_STATUS[4]                                   \* 適用除外

\* str(r.get(column, '')): the text of the cell, "nan" for a null, '' when
\* the record has no such field.
StrGet(r, column) == IF column \in DOMAIN r THEN AsStr(r[column]) ELSE <<>>
\* bool(r.get(column)): false for a missing field and for the empty text; a
\* null cell is the float nan, which is true.
BoolGet(r, column) == column \in DOMAIN r /\ (r[column].isna \/ r[column].v # <<>>)

\* One entry of maturity_details with the amount added to maturity_score.
Scored(label, added, score) == [label |-> label, added |-> added, score |-> score]

\* オンライン化状況
MaturityOnline(status_val) ==
    IF HasSubstring(status_val, STATUS_DONE) /\ ~HasSubstring(status_val, ICHIBU)
    THEN Scored("online_ka", 40, 40)
    ELSE IF HasSubstring(status_val, STATUS_PARTIAL) THEN Scored("online_ka", 20, 20)
    ELSE Scored("online_ka", 0, 0)

\* 添付書類撤廃状況
MaturityDocuments(doc_removal) ==
    IF HasSubstring(doc_removal, TEPPAI) \/ HasSubstring(doc_removal, ZENPAI)
    THEN Scored("shorui_teppai", 20, 20)
    ELSE IF HasSubstring(doc_removal, ICHIBU) \/ HasSubstring(doc_removal, SHORYAKU)
    THEN Scored("shorui_teppai", 10, 10)
    ELSE Scored("shorui_teppai", 0, 0)

\* Mutant of MaturityCashless: the last branch records 10 points and adds none.
MaturityCashless_NotAdded(fee_method) ==
    IF \/ HasSubstring(fee_method, ONLINE) \/ HasSubstring(fee_method, PAY_EASY)
       \/ HasSubstring(fee_method, CREDIT)
    THEN Scored("cashless", 20, 20)
    ELSE IF HasSubstring(fee_method, REVENUE_STAMP) \/ HasSubstring(fee_method, CASH)
    THEN Scored("cashless", 0, 0)
    ELSE Scored("cashless", 0, 10)

\* 手数料オンライン納付
MaturityCashless(fee_method) ==
    IF \/ HasSubstring(fee_method, ONLINE) \/ HasSubstring(fee_method, PAY_EASY)
       \/ HasSubstring(fee_method, CREDIT)
    THEN Scored("cashless", 20, 20)
    ELSE IF HasSubstring(fee_method, REVENUE_STAMP) \/ HasSubstring(fee_method, CASH)
    THEN Scored("cashless", 0, 0)
    ELSE Scored("cashless", 10, 10)

\* システム統合
MaturitySystem(has_system) ==
    IF has_system THEN Scored("system_ka", 20, 20) ELSE Scored("system_ka", 0, 0)

\* maturity_score and maturity_details of the record.
maturity(r) ==
    LET steps == <<MaturityOnline(StrGet(r, COL_STATUS)),
                   MaturityDocuments(StrGet(r, COL_DOC_REMOVAL)),
                   MaturityCashless(StrGet(r, COL_FEE_METHOD)),
                   MaturitySystem(BoolGet(r, COL_SYSTEM_APPLY) \/ BoolGet(r, COL_SYSTEM_OFFICE))>>
    IN  [maturity_score |-> steps[1].added + steps[2].added + steps[3].added + steps[4].added,
         maturity_details |-> [i \in 1..4 |-> [label |-> steps[i].label, score |-> steps[i].score]]]

\* The style of the オンライン化の実施状況 field: the first test that succeeds.
status_style(r) ==
    LET status == IF COL_STATUS \in DOMAIN r THEN AsStr(r[COL_STATUS]) ELSE DASH
    IN  IF HasSubstring(status, STATUS_DONE) THEN "success"
        ELSE IF HasSubstring(status, STATUS_PARTIAL) THEN "warning"
        ELSE IF HasSubstring(status, STATUS_NOT_DONE) THEN "error"
        ELSE "info"

\* Records: the five fields read, each with a value of every branch, null,
\* or (the fee method, which the data files do not have) missing.
InStatuses == {Val(STATUS_DONE), Val(STATUS_PARTIAL), Val(STATUS_NOT_DONE), Val(STATUS_EXEMPT), NaN}
InDocuments == {Val(TEPPAI), Val(ICHIBU \o SHORYAKU), Val(LABEL_X), NaN}
InFees == {Val(ONLINE), Val(CASH), Val(LABEL_X), NaN}
InSystems == {Val(LABEL_X), Val(<<>>), NaN}
InRecords ==
    {[c \in {COL_STATUS, COL_DOC_REMOVAL, COL_FEE_METHOD, COL_SYSTEM_APPLY, COL_SYSTEM_OFFICE} |->
        CASE c = COL_STATUS -> s
          [] c = COL_DOC_REMOVAL -> d
          [] c = COL_FEE_METHOD -> f
          [] c = COL_SYSTEM_APPLY -> a
          [] OTHER -> o] :
        s \in InStatuses, d \in InDocuments, f \in InFees, a \in InSystems, o \in {Val(<<>>), NaN}}
    \cup {[c \in {COL_STATUS, COL_DOC_REMOVAL, COL_SYSTEM_APPLY, COL_SYSTEM_OFFICE} |->
            CASE c = COL_STATUS -> s
              [] c = COL_DOC_REMOVAL -> d
              [] OTHER -> a] :
            s \in InStatuses, d \in InDocuments, a \in {Val(LABEL_X), Val(<<>>)}}

InInit ==
    /\ in_r \in InRecords
    /\ in_out = <<>>

\* The detail view of the record is rendered.
RenderInsight ==
    /\ in_out = <<>>
    /\ in_out' = <<[maturity |-> maturity(in_r), status_style |-> status_style(in_r)]>>
    /\ UNCHANGED in_r

InNext == RenderInsight /\ UNCHANGED <<core_vars, mn_vars, tn_vars, pg_vars>>

InSpecInit == InInit /\ CoreIdle /\ MnIdle /\ TnIdle /\ PgIdle
InSpec == InSpecInit /\ [][InNext]_vars

(***************************************************************************)
(* The whole model: a run of any one of the components.                    *)
(***************************************************************************)
Init ==
    \/ NlSpecInit \/ SvSpecInit \/ AgSpecInit \/ FdSpecInit \/ RgSpecInit
    \/ McSpecInit \/ DtSpecInit \/ LdSpecInit \/ MnSpecInit \/ TnSpecInit
    \/ OoSpecInit \/ PgSpecInit \/ InSpecInit
Next == NlNext \/ SvNext \/ AgNext \/ FdNext \/ DtNext \/ LdNext \/ MnNext \/ TnNext
        \/ PgNext \/ InNext
Spec == Init /\ [][Next]_vars

(***************************************************************************)
(* Properties of _normalize_label.                                         *)
(***************************************************************************)
\* C1: label normalization is idempotent: for every key and raw value,
\* normalizing the result of a normalization returns it unchanged.
C1_NormalizeIdempotent ==
    Len(nl_out) = 2 => nl_out[2] = nl_out[1]

(***************************************************************************)
(* Properties of split_multi_value.                                        *)
(***************************************************************************)
ClaimedDelimiters == {JP_COMMA, ",", FW_COMMA, ";", FW_SEMICOLON}

\* C2: each of the ideographic comma, ASCII comma, full-width comma, ASCII
\* semicolon and full-width semicolon separates: split("A" + d + "B") is
\* ["A", "B"].
C2_DelimitersEquivalent ==
    \A d \in ClaimedDelimiters :
        (sv_done /\ sv_val = <<"A", d, "B">>) => sv_out = << <<"A">>, <<"B">> >>

(***************************************************************************)
(* Properties of normalized_counts and multi_value_counts.  The data of a  *)
(* call are the labels counted: the normalized non-null cells of the       *)
(* column, or the tokens of its non-null cells.                            *)
(***************************************************************************)
AgHasColumn == ag_column \in ag_df.columns
AgNonNull == IF AgHasColumn THEN DropNa(Column(ag_df, ag_column)).values ELSE <<>>
AgData ==
    IF ag_fn = "normalized_counts"
    THEN [i \in 1..Len(AgNonNull) |-> _normalize_label(ag_key, AgNonNull[i].v)]
    ELSE ExtendAll(AgNonNull)
AgDataLabels == {AgData[i] : i \in 1..Len(AgData)}
AgCountInData(label) == Cardinality({i \in 1..Len(AgData) : AgData[i] = label})
\* The order list the call is given, and whether the code applies it.
AgOrderList ==
    IF ag_fn = "normalized_counts"
    THEN (IF ag_key \in OPTION_ORDERS_KEYS THEN OPTION_ORDERS(ag_key) ELSE <<>>)
    ELSE ag_order.list
AgInOrderList(label) == \E i \in 1..Len(AgOrderList) : AgOrderList[i] = label
\* The categories of a categorical column as normalized_counts counts them:
\* kept, unused ones included, when normalization maps them one-to-one.
AgCategoryLabels ==
    IF ag_fn = "normalized_counts" /\ AgHasColumn /\ ag_df.dtypes[ag_column].dtype = "category"
    THEN LET cats == ag_df.dtypes[ag_column].categories
             mapped == {_normalize_label(ag_key, c) : c \in cats}
         IN  IF Cardinality(mapped) = Cardinality(cats) THEN mapped ELSE {}
    ELSE {}
AgIndexLabels == AgDataLabels \cup AgCategoryLabels

AgPlainColumn == AgHasColumn /\ ag_df.dtypes[ag_column].dtype = "object"

\* C3: the counts of normalized_counts sum to the number of non-null cells
\* and those of multi_value_counts to the number of tokens, whether or not a
\* canonical order applies.  (Stated for columns of dtype object, where every
\* label counted is a label of the data.)
C3_CountsConserved ==
    (ag_done /\ AgPlainColumn) => Total(ag_out) = Len(AgData)

C10_DegenerateOrderFallback ==
    (ag_done /\ AgHasColumn /\ Len(AgData) > 0) =>
        /\ ag_out # <<>>
        /\ (AgOrderList # <<>> /\ \A l \in AgDataLabels : ~AgInOrderList(l)) =>
              /\ \A l \in AgDataLabels : l \in Index(ag_out) /\ CountOf(ag_out, l) = AgCountInData(l)
              /\ \A i \in 1..(Len(ag_out) - 1) : ag_out[i].count >= ag_out[i + 1].count

(***************************************************************************)
(* Properties of filter_dataframe.                                         *)
(***************************************************************************)
FdCalled == Len(fd_out) >= 1 /\ fd_out[1].raised = ""
FdResult == fd_out[1].df
\* The position in the source table of the row with an index label.
FdSourcePos(label) == CHOOSE i \in 1..Len(fd_src.rows) : fd_src.index[i] = label
\* As the claims state the ranges: [lo, hi), the top one unbounded, and the
\* zero-or-missing one.
InClaimedRange(r, c) ==
    CASE r = RANGE_0 -> c.isna \/ c.v = 0
      [] r = RANGE_1_10 -> ~c.isna /\ 1 <= c.v /\ c.v < 10
      [] r = RANGE_10_100 -> ~c.isna /\ 10 <= c.v /\ c.v < 100
      [] r = RANGE_100_1K -> ~c.isna /\ 100 <= c.v /\ c.v < 1000
      [] r = RANGE_1K_10K -> ~c.isna /\ 1000 <= c.v /\ c.v < 10000
      [] r = RANGE_10K_100K -> ~c.isna /\ 10000 <= c.v /\ c.v < 100000
      [] r = RANGE_100K_1M -> ~c.isna /\ 100000 <= c.v /\ c.v < 1000000
      [] r = RANGE_1M_UP -> ~c.isna /\ 1000000 <= c.v
OnlyRange(r) == [FdNoArgs EXCEPT !["count_ranges"] = <<r>>]

\* C4: the eight count ranges partition the counts: every row's total count
\* (a non-negative integer or null) is admitted by the filter for exactly one
\* range, and a call with one range returns exactly the rows whose count is
\* in its half-open interval (10 in [10,100), the top range unbounded, 0 and
\* null only in the zero-or-missing range).
C4_RangesPartition ==
    FdCalled =>
        /\ LET admitted == [r \in Range(count_ranges) |->
                               Range(filter_dataframe(fd_src, OnlyRange(r)).df.index)]
           IN  \A i \in 1..Len(fd_src.rows) :
                  Cardinality({r \in Range(count_ranges) : fd_src.index[i] \in admitted[r]}) = 1
        /\ \A r \in Range(count_ranges) :
              fd_args = OnlyRange(r) =>
                  Range(FdResult.index) =
                      {fd_src.index[i] : i \in {j \in 1..Len(fd_src.rows) :
                                                  InClaimedRange(r, fd_src.rows[j][COL_TOTAL])}}

\* Witness of C4: the range [10,100) applied to rows with counts 9 and 10
\* returned the row with 10 alone.
C4_Witness ==
    /\ FdCalled /\ fd_args = OnlyRange(RANGE_10_100)
    /\ Len(fd_src.rows) = 2
    /\ fd_src.rows[1][COL_TOTAL] = Val(9) /\ fd_src.rows[2][COL_TOTAL] = Val(10)
    /\ FdResult.index = <<1>>

\* The conjunction of predicates as C5 states it.
SelectionAdmits(selected, c) == selected = {} \/ (~c.isna /\ c.v \in selected)
ClaimedAdmits(row, args) ==
    /\ SelectionAdmits(args["ministries"], row[COL_MINISTRY])
    /\ SelectionAdmits(args["statuses"], row[COL_STATUS])
    /\ SelectionAdmits(args["types"], row[COL_TYPE])
    /\ SelectionAdmits(args["recipients"], row[COL_RECEIVER])
    /\ SelectionAdmits(args["actors"], row[COL_ACTOR])
    /\ SelectionAdmits(args["receivers"], row[COL_RECEIVER])
    /\ SelectionAdmits(args["office_types"], row[COL_OFFICE])
    /\ SelectionAdmits(args["is_common"], row[COL_COMMON])
    /\ \/ args["count_ranges"] = <<>>
       \/ \E r \in Range(args["count_ranges"]) : InClaimedRange(r, row[COL_TOTAL])

\* C5: the result is exactly the rows that satisfy every predicate: for each
\* selection that is not empty the row's value in its column is selected,
\* and when count ranges are selected the row's total is in one of them.
C5_ConjunctionOfPredicates ==
    FdCalled =>
        /\ Range(FdResult.index) =
              {fd_src.index[i] : i \in {j \in 1..Len(fd_src.rows) : ClaimedAdmits(fd_src.rows[j], fd_args)}}
        /\ \A k \in 1..Len(FdResult.rows) : FdResult.rows[k] = fd_src.rows[FdSourcePos(FdResult.index[k])]

\* Witness of C5: two selections, one of them office_types; of two rows the
\* one that fails only the office_types selection was left out.
C5_Witness ==
    /\ FdCalled
    /\ fd_args["office_types"] = {LABEL_X} /\ fd_args["ministries"] = {LABEL_X}
    /\ Len(fd_src.rows) = 2
    /\ fd_src.rows[1] = FdRow(COL_OFFICE, Val(LABEL_Y)) /\ fd_src.rows[2] = FdBaseRow
    /\ FdResult.index = <<1>>

\* C6: filtering the result again with the same arguments returns the same
\* rows in the same order.
C6_FilterIdempotent ==
    Len(fd_out) = 2 =>
        /\ fd_out[2].raised = ""
        /\ fd_out[2].df.index = fd_out[1].df.index
        /\ fd_out[2].df.rows = fd_out[1].df.rows

\* Witness of C6: a second application, with a selection active, on a first
\* result of two rows.
C6_Witness ==
    /\ Len(fd_out) = 2 /\ fd_args # FdNoArgs
    /\ Len(fd_out[1].df.rows) = 2

\* C7: without any selection the full table is returned unchanged, and no
\* call returns more rows than it was given.
C7_EmptyFilterAndMonotone ==
    FdCalled =>
        /\ Len(FdResult.rows) <= Len(fd_src.rows)
        /\ fd_args = FdNoArgs => FdResult = fd_src

\* Witness of C7: a call without selections on a table of two rows.
C7_Witness ==
    FdCalled /\ fd_args = FdNoArgs /\ Len(fd_src.rows) = 2 /\ Len(FdResult.rows) = 2

\* C8: the call leaves the source table unchanged, every result row is a row
\* of the source, and the result rows are in the source's relative order.
C8_PureOrderPreservingSubset ==
    FdCalled =>
        /\ fd_df = fd_src
        /\ \A k \in 1..Len(FdResult.rows) :
              /\ \E i \in 1..Len(fd_src.rows) : fd_src.index[i] = FdResult.index[k]
              /\ FdResult.rows[k] = fd_src.rows[FdSourcePos(FdResult.index[k])]
        /\ \A k, l \in 1..Len(FdResult.rows) :
              k < l => FdSourcePos(FdResult.index[k]) < FdSourcePos(FdResult.index[l])

\* Witness of C8: an active filter that dropped the first of two rows.
C8_Witness ==
    /\ FdCalled /\ fd_args # FdNoArgs
    /\ Len(fd_src.rows) = 2 /\ FdResult.index = <<1>>
    /\ FdResult.rows[1] = fd_src.rows[2]

\* C11: aggregating a column that is missing from the table, a table with no
\* rows, or a column whose cells are all null returns the empty frequency
\* table, from normalized_counts and from multi_value_counts.
C11_NoDataGivesEmptyTable ==
    (ag_done /\ (~AgHasColumn \/ Len(ag_df.rows) = 0 \/ AgNonNull = <<>>))
        => ag_out = EmptySeries

FdReadsMissingColumn == ~(ColumnsRead(fd_args) \subseteq fd_src.columns)

\* C12: filter_dataframe called with a selection (or a count range) for a
\* column the table does not have returns an empty result and does not raise.
C12_MissingColumnIsNoData ==
    (Len(fd_out) >= 1 /\ FdReadsMissingColumn)
        => (fd_out[1].raised = "" /\ fd_out[1].df.rows = <<>>)

IsBlank(token) == \A i \in 1..Len(token) : IsSpace(token[i])

\* C13: split_multi_value never returns an empty or whitespace-only token:
\* every element of the result is non-empty and is its own trimmed form.
C13_TokensTrimmedNonEmpty ==
    sv_done => \A i \in 1..Len(sv_out) :
                  /\ sv_out[i] # <<>>
                  /\ ~IsBlank(sv_out[i])
                  /\ ~IsSpace(sv_out[i][1])
                  /\ ~IsSpace(sv_out[i][Len(sv_out[i])])

\* C13 witness: a text with a blank segment and a padded segment was split.
C13_Witness ==
    /\ sv_done
    /\ sv_val = <<" ", ",", " ", "A">>
    /\ sv_out = << <<"A">> >>

\* The maximal runs of characters of the text that are not delimiters, as
\* pairs of first and last position.
SvText == Strip(sv_val)
SvRuns ==
    {r \in (1..Len(SvText)) \X (1..Len(SvText)) :
        /\ r[1] <= r[2]
        /\ \A i \in r[1]..r[2] : SvText[i] \notin Delimiters
        /\ r[1] = 1 \/ SvText[r[1] - 1] \in Delimiters
        /\ r[2] = Len(SvText) \/ SvText[r[2] + 1] \in Delimiters}
SvSegments == {r \in SvRuns : ~IsBlank(SubSeq(SvText, r[1], r[2]))}
SvIsText == sv_val \notin {PyNone, FloatNaN} /\ Lower(SvText) # <<"n", "a", "n">>

\* C14: the result lists the non-empty trimmed segments of the text in the
\* order they occur, one token per segment, so that a token occurring k times
\* between delimiters occurs k times in the result.
C14_OrderAndDuplicatesKept ==
    (sv_done /\ SvIsText) =>
        /\ Len(sv_out) = Cardinality(SvSegments)
        /\ \A r \in SvSegments :
              LET pos == Cardinality({q \in SvSegments : q[1] <= r[1]})
              IN  sv_out[pos] = Strip(SubSeq(SvText, r[1], r[2]))

\* C14 witness: a token that occurs twice, around another one.
C14_Witness ==
    /\ sv_done
    /\ sv_val = <<"B", ",", "A", ";", "B">>
    /\ sv_out = << <<"B">>, <<"A">>, <<"B">> >>

\* C15: split_multi_value returns the empty list for None, float NaN, the
\* empty string, a whitespace-only string and the text "nan" in any case.
C15_NullLikeGivesEmptyList ==
    (sv_done /\ (\/ sv_val \in {PyNone, FloatNaN}
                 \/ (sv_val \notin {PyNone, FloatNaN}
                     /\ (IsBlank(sv_val) \/ Lower(SvText) = <<"n", "a", "n">>))))
        => sv_out = <<>>

\* C15 witness: the padded upper-case text " NAN " was split.
C15_Witness ==
    /\ sv_done
    /\ sv_val = <<" ", "N", "A", "N", " ">>
    /\ sv_out = <<>>

\* A prefix that is a classification code with the whitespace after it:
\* digits, optionally "-" and digits, then whitespace.
IsCodePrefix(p) ==
    \E a \in 1..Len(p) : \E b \in a..Len(p) :
        /\ \A i \in 1..a : IsDigit(p[i])
        /\ \/ b = a
           \/ /\ b >= a + 2
              /\ p[a + 1] = "-"
              /\ \A i \in (a + 2)..b : IsDigit(p[i])
        /\ \A i \in (b + 1)..Len(p) : IsSpace(p[i])
\* The length of the longest such prefix of s (0 when there is none).
CodeLength(s) ==
    LET lens == {n \in 1..Len(s) : IsCodePrefix(SubSeq(s, 1, n))}
    IN  IF lens = {} THEN 0 ELSE CHOOSE n \in lens : \A m \in lens : m <= n
LeadingDigits(s) == SkipDigits(s, 1) - 1
NlRaw == Strip(nl_val)
NlMissing == NlRaw = <<>> \/ Lower(NlRaw) = <<"n", "a", "n">>
WithFullWidthParens(s) ==
    [i \in 1..Len(s) |-> CASE s[i] = "(" -> FW_LPAREN [] s[i] = ")" -> FW_RPAREN [] OTHER -> s[i]]

\* C16: for the keys オンライン化の実施状況 and 手続類型 the result is the
\* value without its leading code digits[-digits] and the whitespace after
\* it; for every other key the leading digits of the value stay in place.
C16_LeadingCodeStripped ==
    (Len(nl_out) >= 1 /\ ~NlMissing) =>
        IF nl_key \in {COL_STATUS, COL_TYPE}
        THEN nl_out[1] = WithFullWidthParens(SubSeq(NlRaw, CodeLength(NlRaw) + 1, Len(NlRaw)))
        ELSE /\ Len(nl_out[1]) = Len(NlRaw)
             /\ SubSeq(nl_out[1], 1, LeadingDigits(NlRaw)) = SubSeq(NlRaw, 1, LeadingDigits(NlRaw))

\* C16 witness: the code "1-1" and the space after it were removed.
C16_Witness ==
    /\ Len(nl_out) >= 1
    /\ nl_key = COL_STATUS
    /\ nl_val = <<"1", "-", "1", " ", "a">>
    /\ nl_out[1] = <<"a">>

DtNoMatch == \A i \in 1..Len(dt_df.rows) : ~CellEq(dt_df.rows[i][COL_ID], Val(dt_id))
DtFirstMatch ==
    CHOOSE i \in 1..Len(dt_df.rows) :
        /\ CellEq(dt_df.rows[i][COL_ID], Val(dt_id))
        /\ \A j \in 1..(i - 1) : ~CellEq(dt_df.rows[j][COL_ID], Val(dt_id))

\* C17: looking up an id that matches no row reports the not-found state,
\* renders no record and leaves the session state as it was; when a row
\* matches, the first matching row in table order is the one rendered.
C17_NotFoundIsReported ==
    /\ [](Len(dt_out) = 1 =>
            IF DtNoMatch
            THEN /\ dt_out[1].error = <<dt_id>>
                 /\ dt_out[1].record = <<>>
                 /\ dt_out[1].fields = <<>>
            ELSE /\ dt_out[1].error = <<>>
                 /\ dt_out[1].record = <<dt_df.index[DtFirstMatch]>>)
    /\ [][DtNoMatch => dt_session' = dt_session]_vars

\* C17 witness: a lookup in a table of two rows found nothing.
C17_Witness ==
    /\ Len(dt_out) = 1
    /\ Len(dt_df.rows) = 2
    /\ dt_out[1].error # <<>>
    /\ dt_session.show_detail

\* The entry the claim gives a declared column of a record.
DtRecord == dt_df.rows[DtFirstMatch]
DeclaredOrder ==
    important_cols \o SelectSeq(COLUMNS, LAMBDA c : c \notin Range(important_cols))
IsNullOrBlank(column, r) ==
    \/ column \notin DOMAIN r
    \/ r[column].isna
    \/ IsBlank(PyStr(column, r[column]))

\* C18: the all-fields projection of a record has one entry for each of the
\* declared COLUMNS, the important columns first and then the rest in their
\* order, and the entry of a null or blank value shows the placeholder.
C18_ProjectionHasEveryField ==
    (Len(dt_out) = 1 /\ ~DtNoMatch) =>
        /\ Len(dt_out[1].fields) = Len(COLUMNS)
        /\ \A i \in 1..Len(dt_out[1].fields) :
              /\ dt_out[1].fields[i].name = DeclaredOrder[i]
              /\ IsNullOrBlank(DeclaredOrder[i], DtRecord)
                    => dt_out[1].fields[i].value = DASH

(***************************************************************************)
(* Properties of load_data.                                                *)
(***************************************************************************)
LdConverted == Len(ld_out) >= 1 /\ ld_out[1].raised = "" /\ ld_out[1].converted
IsCountText(t) == t # <<>> /\ \A i \in 1..Len(t) : IsDigit(t[i])

\* C19: after the CSV conversion every cell of the three count columns whose
\* source text is not a non-negative integer holds 0, every cell whose text
\* is one holds that integer, and the table has a row for every data row.
C19_MalformedCountsBecomeZero ==
    LdConverted =>
        /\ Len(ld_out[1].df.rows) = Len(ld_csv.content)
        /\ \A i \in 1..Len(ld_csv.content) : \A c \in {COL_TOTAL, COL_ONLINE, COL_OFFLINE} :
              ld_out[1].df.rows[i][c] =
                  IF IsCountText(ld_csv.content[i][c])
                  THEN Val(DigitsToNat(ld_csv.content[i][c]))
                  ELSE Val(0)

LdLoaded == Len(ld_out) >= 1 /\ ld_out[1].raised = ""
LdRecomputed == ld_out[1].converted \/ COL_RATE \notin ld_parquet.content.columns
Abs(n) == IF n < 0 THEN 0 - n ELSE n

\* C20: a table loaded with 総手続件数 and オンライン手続件数 is returned
\* with オンライン化率, and a recomputed rate is 0 in a row whose total is 0
\* and otherwise online / total * 100 rounded to 2 decimals (here: the rate
\* in hundredths is within one half of online * 10000 / total).
C20_RateRecomputed ==
    (LdLoaded /\ {COL_TOTAL, COL_ONLINE} \subseteq ld_out[1].df.columns) =>
        /\ COL_RATE \in ld_out[1].df.columns
        /\ LdRecomputed =>
              \A i \in 1..Len(ld_out[1].df.rows) :
                  LET total == ld_out[1].df.rows[i][COL_TOTAL].v
                      online == ld_out[1].df.rows[i][COL_ONLINE].v
                      rate == ld_out[1].df.rows[i][COL_RATE].v
                  IN  IF total = 0 THEN rate = 0
                      ELSE 2 * Abs(rate * total - online * 10000) <= Abs(total)

(***************************************************************************)
(* Properties of the runs of main().                                       *)
(***************************************************************************)
\* C21: load_data is called only while data_loaded is false; once a run has
\* loaded the table, data_loaded is true and df is that table, and no later
\* run or button handler reassigns df or changes its rows.
C21_LoadedOnceThenReadOnly ==
    /\ [](mn_session["data_loaded"] => mn_session["df"] = mn_disk)
    /\ [][/\ mn_loads' # mn_loads => ~mn_session["data_loaded"]
          /\ mn_session["data_loaded"] =>
                /\ mn_session'["data_loaded"]
                /\ mn_session'["df"] = mn_session["df"]]_vars
\* A second call of load_data succeeded after the first raised, and a button
\* handler and the run it asked for have executed on the loaded session.
C21_Witness ==
    /\ mn_loads = 2 /\ mn_session["data_loaded"] /\ mn_event = "rerun"
    /\ Len(mn_session["df"].rows) = MaxMainRows

(***************************************************************************)
(* Properties of topn_with_other.                                          *)
(***************************************************************************)
TnCalled == Len(tn_out) = 1
TnResult == tn_out[1]
TnNonNull == SelectSeq(tn_series.values, LAMBDA c : ~c.isna)
\* The labels of the result other than the bucket.
TnKept == Index(TnResult) \ {OTHER_LABEL}
TnDistinct == {TnNonNull[i].v : i \in 1..Len(TnNonNull)}

C23_OrderEntriesAreFixedPoints ==
    (nl_key \in OPTION_ORDERS_KEYS /\ nl_val \in Range(OPTION_ORDERS(nl_key)) /\ Len(nl_out) >= 1) =>
        /\ nl_out[1] = nl_val
        /\ nl_out[1] \in Range(OPTION_ORDERS(nl_key))

(***************************************************************************)
(* Properties of the progress indicator.                                   *)
(***************************************************************************)
\* C24: the value handed to st.progress lies in [0, 1] for every filtered
\* table: 0 <= (online_procs + 0.5 * partial_procs) / n_total <= 1.
C24_ProgressIsFraction ==
    Len(pg_out) = 1 =>
        /\ 0 <= pg_out[1].twice
        /\ pg_out[1].twice <= 2 * pg_out[1].n_total

\* The table of the session, the rows the stored search found and the rows
\* the filter selections keep, by index label.
MnDf == mn_session["df"]
MnSearchIndex == Range(mn_session["search_results"].index)
MnFilterIndex == Range(MainFilter(MnDf, mn_filter).index)
MnSettled == mn_pending = "" /\ mn_shown.view \in {"dashboard", "search", "detail"}

\* C25: when a search is active, the rows displayed are exactly the rows of
\* the table that are in the search results and in the filter result, in
\* the order of the table, whether or not the filter removes a row.
C25_SearchAndFilterIntersect ==
    (MnSettled /\ mn_shown.view = "search") =>
        mn_shown.rows = SelectSeq(MnDf.index,
                                  LAMBDA l : l \in MnSearchIndex /\ l \in MnFilterIndex)
\* A search that finds one of two rows, under a filter selection that admits
\* every row of the table.
C25_Witness ==
    /\ MnSettled /\ mn_shown.view = "search" /\ mn_origin = "fresh"
    /\ mn_filter.ministry_filter # {}
    /\ Len(MnDf.rows) = 2
    /\ Cardinality(MnFilterIndex) = 2
    /\ Len(mn_shown.rows) = 1

C27_SearchEntriesPaired ==
    mn_origin # "" =>
        (SessionHas(mn_session, "search_results") <=> SessionHas(mn_session, "search_query"))
\* The handler of 検索をクリア has removed both entries of a search the box
\* had stored, and the rerun it asked for has not started.
C27_Witness ==
    /\ mn_origin = "fresh" /\ mn_pending = "clear" /\ mn_box # <<>>
    /\ ~SessionHas(mn_session, "search_results")
    /\ ~SessionHas(mn_session, "search_query")

MnShowDetail == SessionGet(mn_session, "show_detail", FALSE)

InRendered == Len(in_out) = 1
InDetails == in_out[1].maturity.maturity_details
InScore == in_out[1].maturity.maturity_score

\* C29: maturity_details has exactly four entries, オンライン化 in
\* {0, 20, 40}, 書類撤廃 in {0, 10, 20}, キャッシュレス in {0, 10, 20} and
\* システム化 in {0, 20}; maturity_score is the sum of their scores, a
\* multiple of 10 between 0 and 100.
C29_MaturityWellFormed ==
    InRendered =>
        /\ Len(InDetails) = 4
        /\ InDetails[1].label = "online_ka" /\ InDetails[1].score \in {0, 20, 40}
        /\ InDetails[2].label = "shorui_teppai" /\ InDetails[2].score \in {0, 10, 20}
        /\ InDetails[3].label = "cashless" /\ InDetails[3].score \in {0, 10, 20}
        /\ InDetails[4].label = "system_ka" /\ InDetails[4].score \in {0, 20}
        /\ InScore = InDetails[1].score + InDetails[2].score + InDetails[3].score + InDetails[4].score
        /\ InScore % 10 = 0 /\ InScore >= 0 /\ InScore <= 100
\* A record that takes the 20-point branch of オンライン化 and the 10-point
\* branches of 書類撤廃 and キャッシュレス, and has no system.
C29_Witness ==
    /\ InRendered /\ InScore = 40
    /\ InDetails[1].score = 20 /\ InDetails[2].score = 10
    /\ InDetails[3].score = 10 /\ InDetails[4].score = 0

\* The class of the online status of the record, as the claim reads it.
InStatusText == IF COL_STATUS \in DOMAIN in_r THEN AsStr(in_r[COL_STATUS]) ELSE DASH
\* C30: a status containing 一部実施済 is rendered with the warning style, one
\* containing 実施済 but not 一部 with the success style, one containing 未実施
\* with the error style, and anything else with the info style.
C30_StatusStyledByClass ==
    InRendered =>
        in_out[1].status_style =
            IF HasSubstring(InStatusText, STATUS_PARTIAL) THEN "warning"
            ELSE IF HasSubstring(InStatusText, STATUS_DONE) /\ ~HasSubstring(InStatusText, ICHIBU)
            THEN "success"
            ELSE IF HasSubstring(InStatusText, STATUS_NOT_DONE) THEN "error"
            ELSE "info"

====
